---- MODULE Spec2Model ----
(***************************************************************************)
(* State-machine model of the zthread synchronisation kernel:              *)
(*   - SemaphoreImpl<List> (src/zthread/src/semaphore_impl.h)              *)
(*   - BlockingQueue / BoundedQueue / MonitoredQueue                        *)
(* on top of the per-thread Monitor and the Condition, whose sources are    *)
(* not part of the tree and are modelled from the specification (4.1, 4.5). *)
(***************************************************************************)
EXTENDS Integers, Sequences, FiniteSets, TLC

(* ------------------------------ bounds --------------------------------- *)

\* number of participating threads
NThreads == 3

\* max_count handed to the semaphore constructor
MaxCount == 2

\* total number of semaphore operations started in one behaviour
MaxOps == 4

\* the same, in the behaviours without interrupt and timeout
MaxOrdOps == 6

\* total number of Interrupt() calls in one behaviour
MaxIntr == 1

\* total number of queue operations started in one behaviour
MaxQOps == 3

\* largest capacity handed to the BoundedQueue constructor
MaxCapacity == 2

\* the values added to a queue are 1 .. MaxItem
MaxItem == 3

\* number of operations started in one producer/consumer behaviour
MaxPCOps == 7

\* number of read-write lock operations started in one behaviour
MaxRWOps == 4

\* number of FairReadWriteLock operations started in one behaviour
MaxFairOps == 5

\* number of semaphore operations started in one behaviour with repeated
\* interrupts
MaxIntrOps == 3

\* number of Interrupt() calls in one behaviour with repeated interrupts
MaxInterrupts == 3

\* number of CountedPtr handles that exist at one time
MaxHandles == 3

\* number of CountedPtr constructions and destructions started in one
\* behaviour
MaxPtrOps == 6

\* number of Guard constructions and destructions started in one behaviour
MaxScopeOps == 4

\* the worker threads, and the thread that constructed the primitives
Threads == 1 .. NThreads
Main == NThreads + 1
AllThreads == 1 .. NThreads + 1

\* timeout arguments: 0 (no wait at all) and one positive value
Timeouts == {0, 1}

(* ------------------------------ state ---------------------------------- *)

VARIABLES
    \* SemaphoreImpl fields
    count,          \* count_
    max_count,      \* max_count_
    checked,        \* checked_
    entry_count,    \* entry_count_
    waiters,        \* waiters_ : sequence of thread ids
    lock,           \* lock_ (FastLock): 0 = free, else the holder
    policy,         \* the List template parameter: "fifo" | "priority"
    \* Monitor of every thread
    mstate,         \* state word
    intr,           \* interrupt flag raised and not yet consumed
    mlock,          \* holder of the Monitor's mutex, 0 = free
    \* per-thread control
    pc,             \* position of the thread inside its operation
    op,             \* operation in progress / last operation
    tmo,            \* timeout argument of that operation
    wres,           \* state returned by the thread's last Monitor.wait
    ret,            \* outcome of the thread's last operation
    \* locals of the Release in progress (only the lock holder walks)
    iter,           \* list iterator i (1-based index), 0 when no walk
    impl,           \* candidate whose Monitor the walker holds, 0 if none
    \* observers
    count0,         \* count the semaphore was constructed with
    nAcq,           \* Acquire/TryAcquire calls that took a count
    nRel,           \* Release calls that raised the count
    nOps,           \* operations started
    nIntr,          \* Interrupt() calls made
    events,         \* log of enqueue / wake events (ordering claims)
    skipped,        \* waiters the current walk skipped as busy
    anySkip,        \* some walk skipped a busy waiter
    \* the queue under test
    qkind,          \* "blocking" | "bounded" | "monitored" ("none": no queue)
    queue_,         \* queue_ : the stored values, front first
    capacity_,      \* capacity_ (BoundedQueue)
    canceled_,      \* canceled_
    qlock,          \* lock_ of the queue: 0 = free, else the holder
    cond,           \* waiter lists of not_full_, not_empty_, is_empty_
    item,           \* argument of the thread's Add
    added,          \* observer: values pushed, in push order
    removed,        \* observer: values popped, in pop order
    \* the BiasedReadWriteLock under test
    active_writers_,    \* active_writers_
    active_readers_,    \* active_readers_
    waiting_readers_,   \* waiting_readers_
    waiting_writers_,   \* waiting_writers_
    rwlock,             \* lock_ of the read-write lock: 0 = free, else the holder
    rwcond,             \* waiter lists of cond_read_ and cond_write_
    result,             \* local `result` of BeforeReadAttempt / BeforeWriteAttempt
    wake,               \* locals wake_writer / wake_reader of AfterRead / AfterWrite
    held,               \* what each caller holds by the results it was given
    \* the FairReadWriteLock under test
    readers_,       \* readers_
    mtx,            \* lock_ (Mutex): 0 = free, else the owner
    mtxq,           \* threads blocked in lock_.Acquire / TryAcquire, in arrival order
    fcond,          \* waiter list of cond_
    fheld,          \* what each caller holds by the results it was given
    stamp,          \* observer: arrival number of the thread's last call
    \* the CountedPtr handles under test and the AtomicCount they share
    hstate,         \* per handle: "none" | "copying" | "live" | "dying"
    hcount,         \* per handle: count_ (0 = null, 1 = the shared AtomicCount);
                    \* stale once the handle is destroyed
    hsrc,           \* per handle under construction: the handle it copies
    hcur,           \* per thread: the handle its constructor / destructor is in
    value,          \* *_value of the AtomicCount
    alive,          \* the AtomicCount is allocated (new'ed and not deleted)
    deletes,        \* observer: times `delete instance_` has run
    asserted,       \* observer: ~AtomicCount's assert(value == 0) has failed
    dangling,       \* observer: a freed AtomicCount has been used
    \* a Guard<LockType, CompoundScope<Scope1, Scope2> > and its lock
    Scope1,         \* first policy of the guard constructed last
    Scope2,         \* second policy of the guard constructed last
    guard,          \* "none" | "live": a constructed guard exists
    holds,          \* the lock: Acquire / TryAcquire successes minus Release calls
    applied,        \* the scopes (1, 2) created and not destroyed
    calls,          \* the calls the last operation made on the lock, in order
    sop,            \* the last operation of the guard
    sret,           \* what it returned or threw
    holds0,         \* observer: holds when the last operation started
    nScopeOps,      \* observer: guard operations started
    \* a FastLock shared by the worker threads
    value_,         \* _value
    owner_,         \* _owner (0 = nobody)
    flpc,           \* per thread: its position in Acquire / TryAcquire / Release
    flret,          \* per thread: the result of its last TryAcquire
    aborted         \* Release's assert on _owner has failed

semVars == <<count, max_count, checked, entry_count, waiters, lock, policy>>
monVars == <<mstate, intr, mlock>>
thrVars == <<pc, op, tmo, wres, ret, iter, impl>>
obsVars == <<count0, nAcq, nRel, nOps, nIntr>>
ordVars == <<events, skipped, anySkip>>
qVars == <<qkind, queue_, capacity_, canceled_, qlock, cond, item, added, removed>>
rwVars == <<active_writers_, active_readers_, waiting_readers_, waiting_writers_,
            rwlock, rwcond, result, wake, held>>

fairVars == <<readers_, mtx, mtxq, fcond, fheld, stamp>>

ptrVars == <<hstate, hcount, hsrc, hcur, value, alive, deletes, asserted,
             dangling>>

scopeVars == <<Scope1, Scope2, guard, holds, applied, calls, sop, sret, holds0,
               nScopeOps>>

flVars == <<value_, owner_, flpc, flret, aborted>>

\* the state of the primitives added after the read-write lock
extVars == <<fairVars, ptrVars, scopeVars, flVars>>

vars == <<semVars, monVars, thrVars, obsVars, ordVars, qVars, rwVars, extVars>>

(* ---------------------- waiter lists (fifo / priority) ------------------ *)

\* ThreadHandle.getPriority(): thread 2 is the most urgent, 1 the least.
Priority(t) == CASE t = 1 -> 1
                 [] t = 2 -> 5
                 [] OTHER -> 3

\* elements of s before index i / from index i on
Front(s, i) == SubSeq(s, 1, i - 1)
Back(s, i) == SubSeq(s, i, Len(s))

\* List::erase(i)
ListErase(s, i) == Front(s, i) \o Back(s, i + 1)

\* std::find(begin, end, self): first index holding t, or Len+1 (end)
ListFind(s, t) ==
    IF \E j \in 1 .. Len(s) : s[j] = t
    THEN CHOOSE j \in 1 .. Len(s) : s[j] = t /\ \A k \in 1 .. j - 1 : s[k] # t
    ELSE Len(s) + 1

\* mutant of ListRemove: the caller is looked for but not erased
ListRemoveNothing(s, t) == s

\* i = find(self); if (i != end) erase(i)
ListRemove(s, t) ==
    IF ListFind(s, t) <= Len(s) THEN ListErase(s, ListFind(s, t)) ELSE s

\* List::push_back(self)
ListPushBack(s, t) == Append(s, t)

\* position of element j of s once s is ordered by descending priority,
\* elements of equal priority keeping their relative order
Rank(s, j) ==
    1 + Cardinality({k \in 1 .. Len(s) :
                        \/ Priority(s[k]) > Priority(s[j])
                        \/ Priority(s[k]) = Priority(s[j]) /\ k < j})

\* the list in descending priority order, insertion order among equals
PriorityOrder(s) ==
    [r \in 1 .. Len(s) |-> s[CHOOSE j \in 1 .. Len(s) : Rank(s, j) = r]]

\* List::insert(self) of the list the semaphore was instantiated with:
\* the fifo list appends, the priority list appends and reorders
ListInsert(s, t) ==
    IF policy = "priority" THEN PriorityOrder(Append(s, t)) ELSE Append(s, t)

(* ------------------------------ Monitor -------------------------------- *)

MonitorStates == {"IDLE", "SIGNALED", "INTERRUPTED", "TIMEDOUT"}

\* mutant of Consumed: the wait that reports the interrupt leaves the flag
\* standing
ConsumedKeepsInterrupt(t, s) == IF intr[t] THEN "INTERRUPTED" ELSE "IDLE"

\* the state word after the owner's wait has consumed state s: a raised
\* interrupt that this wait did not report stays pending for the next wait
Consumed(t, s) ==
    IF s # "INTERRUPTED" /\ intr[t] THEN "INTERRUPTED" ELSE "IDLE"

\* mutant of NotifyWakes: notify() reports a wake-up whatever the state word
NotifyAlwaysWakes(t) == TRUE

\* Monitor.notify(): true iff the state word left IDLE by this call
NotifyWakes(t) == mstate[t] = "IDLE"

\* state word after notify()
Notified(t) == IF mstate[t] = "IDLE" THEN "SIGNALED" ELSE mstate[t]

\* state word after Interrupt(): INTERRUPTED wins over a pending TIMEDOUT,
\* a pending SIGNALED is reported first
Interrupted(t) ==
    IF mstate[t] \in {"IDLE", "TIMEDOUT"} THEN "INTERRUPTED" ELSE mstate[t]

\* Monitor.TryAcquire() by a notifier succeeds iff the mutex is free
MonitorFree(t) == mlock[t] = 0

\* Monitor.wait(), first half: a pending state is returned at once (the
\* Monitor stays held); otherwise the Monitor is released and the owner parks
MonitorWaitBegin(t) ==
    /\ pc[t] = "pre_wait"
    /\ IF mstate[t] # "IDLE"
       THEN /\ wres' = [wres EXCEPT ![t] = mstate[t]]
            /\ mstate' = [mstate EXCEPT ![t] = Consumed(t, mstate[t])]
            /\ intr' = [intr EXCEPT ![t] = intr[t] /\ mstate[t] # "INTERRUPTED"]
            /\ pc' = [pc EXCEPT ![t] = "post_wait"]
            /\ UNCHANGED mlock
       ELSE /\ mlock' = [mlock EXCEPT ![t] = 0]
            /\ pc' = [pc EXCEPT ![t] = "parked"]
            /\ UNCHANGED <<wres, mstate, intr>>
    /\ UNCHANGED <<semVars, op, tmo, ret, iter, impl, obsVars>>

\* the deadline of a timed wait elapses while the owner is parked
MonitorTimeout(t) ==
    /\ pc[t] = "parked"
    /\ tmo[t] > 0
    /\ mstate[t] = "IDLE"
    /\ mstate' = [mstate EXCEPT ![t] = "TIMEDOUT"]
    /\ UNCHANGED <<semVars, intr, mlock, thrVars, obsVars>>

\* Interrupt() on thread t, by any other thread: the flag is raised and the
\* state word updated
RaiseInterrupt(t) ==
    /\ nIntr' = nIntr + 1
    /\ intr' = [intr EXCEPT ![t] = TRUE]
    /\ mstate' = [mstate EXCEPT ![t] = Interrupted(t)]
    /\ UNCHANGED <<semVars, mlock, thrVars, count0, nAcq, nRel, nOps>>

\* Interrupt() on thread t, at most MaxIntr times in one behaviour
Interrupt(t) == nIntr < MaxIntr /\ RaiseInterrupt(t)

\* Monitor.wait(), second half: the parked owner is woken by a non-IDLE
\* state, re-acquires the Monitor, and consumes and returns the state
MonitorWaitEnd(t) ==
    /\ pc[t] = "parked"
    /\ mstate[t] # "IDLE"
    /\ MonitorFree(t)
    /\ mlock' = [mlock EXCEPT ![t] = t]
    /\ wres' = [wres EXCEPT ![t] = mstate[t]]
    /\ mstate' = [mstate EXCEPT ![t] = Consumed(t, mstate[t])]
    /\ intr' = [intr EXCEPT ![t] = intr[t] /\ mstate[t] # "INTERRUPTED"]
    /\ pc' = [pc EXCEPT ![t] = "post_wait"]
    /\ UNCHANGED <<semVars, op, tmo, ret, iter, impl, obsVars>>

(* ----------------------------- SemaphoreImpl ---------------------------- *)

\* SemaphoreImpl::Count()
Count == count

\* mutant of FastPath: the count is tested with >= instead of >
FastPathOffByOne == count >= 0 /\ entry_count = 0

\* the test guarding the fast path of Acquire and TryAcquire
FastPath == count > 0 /\ entry_count = 0

\* mutant of AtMaximum: the bound is tested one count too early
AtMaximumEarly == checked /\ count + 1 >= max_count

\* Release's validity test: a checked semaphore at its maximum
AtMaximum == checked /\ count = max_count

\* mutant of AcquireEnter: the caller is appended with push_back instead of
\* the list's insert
AcquireEnterPushBack(t) ==
    /\ pc[t] = "idle"
    /\ lock = 0
    /\ nOps' = nOps + 1
    /\ op' = [op EXCEPT ![t] = "Acquire"]
    /\ tmo' = [tmo EXCEPT ![t] = 0]
    /\ wres' = [wres EXCEPT ![t] = "IDLE"]
    /\ IF FastPath
       THEN /\ count' = count - 1
            /\ nAcq' = nAcq + 1
            /\ ret' = [ret EXCEPT ![t] = "ok"]
            /\ UNCHANGED <<entry_count, waiters, mlock, pc>>
       ELSE /\ MonitorFree(t)
            /\ entry_count' = entry_count + 1
            /\ waiters' = ListPushBack(waiters, t)
            /\ mlock' = [mlock EXCEPT ![t] = t]
            /\ pc' = [pc EXCEPT ![t] = "pre_wait"]
            /\ ret' = [ret EXCEPT ![t] = "none"]
            /\ UNCHANGED <<count, nAcq>>
    /\ UNCHANGED <<max_count, checked, lock, policy, mstate, intr, iter, impl,
                   count0, nRel, nIntr>>

\* mutant of AcquireEnter: the caller waits without the UnlockedScope, lock_
\* stays with it
AcquireEnterHoldsLock(t) ==
    /\ pc[t] = "idle"
    /\ lock = 0
    /\ nOps' = nOps + 1
    /\ op' = [op EXCEPT ![t] = "Acquire"]
    /\ tmo' = [tmo EXCEPT ![t] = 0]
    /\ wres' = [wres EXCEPT ![t] = "IDLE"]
    /\ IF FastPath
       THEN /\ count' = count - 1
            /\ nAcq' = nAcq + 1
            /\ ret' = [ret EXCEPT ![t] = "ok"]
            /\ UNCHANGED <<entry_count, waiters, mlock, pc, lock>>
       ELSE /\ MonitorFree(t)
            /\ entry_count' = entry_count + 1
            /\ waiters' = ListInsert(waiters, t)
            /\ mlock' = [mlock EXCEPT ![t] = t]
            /\ lock' = t
            /\ pc' = [pc EXCEPT ![t] = "pre_wait"]
            /\ ret' = [ret EXCEPT ![t] = "none"]
            /\ UNCHANGED <<count, nAcq>>
    /\ UNCHANGED <<max_count, checked, policy, mstate, intr, iter, impl,
                   count0, nRel, nIntr>>

\* SemaphoreImpl::Acquire(), from the Guard on lock_ up to the wait: the fast
\* path takes a count and returns; otherwise the caller is inserted in
\* waiters_, takes its own Monitor and drops lock_ (UnlockedScope) to wait
AcquireEnter(t) ==
    /\ pc[t] = "idle"
    /\ lock = 0
    /\ nOps' = nOps + 1
    /\ op' = [op EXCEPT ![t] = "Acquire"]
    /\ tmo' = [tmo EXCEPT ![t] = 0]
    /\ wres' = [wres EXCEPT ![t] = "IDLE"]
    /\ IF FastPath
       THEN /\ count' = count - 1
            /\ nAcq' = nAcq + 1
            /\ ret' = [ret EXCEPT ![t] = "ok"]
            /\ UNCHANGED <<entry_count, waiters, mlock, pc>>
       ELSE /\ MonitorFree(t)
            /\ entry_count' = entry_count + 1
            /\ waiters' = ListInsert(waiters, t)
            /\ mlock' = [mlock EXCEPT ![t] = t]
            /\ pc' = [pc EXCEPT ![t] = "pre_wait"]
            /\ ret' = [ret EXCEPT ![t] = "none"]
            /\ UNCHANGED <<count, nAcq>>
    /\ UNCHANGED <<max_count, checked, lock, policy, mstate, intr, iter, impl,
                   count0, nRel, nIntr>>

\* mutant of AcquireResume: the count is taken whatever state the wait
\* returned
AcquireResumeAlwaysTakes(t) ==
    /\ pc[t] = "post_wait"
    /\ op[t] = "Acquire"
    /\ lock = 0
    /\ mlock' = [mlock EXCEPT ![t] = 0]
    /\ waiters' = ListRemove(waiters, t)
    /\ entry_count' = entry_count - 1
    /\ pc' = [pc EXCEPT ![t] = "idle"]
    /\ count' = count - 1
    /\ nAcq' = nAcq + 1
    /\ ret' = [ret EXCEPT ![t] = "ok"]
    /\ UNCHANGED <<max_count, checked, lock, policy, mstate, intr, op, tmo, wres,
                   iter, impl, count0, nRel, nOps, nIntr>>

\* SemaphoreImpl::Acquire() after the wait: lock_ is re-acquired, the Monitor
\* released, the caller removed from waiters_ if still there, entry_count_
\* decremented and the wait's state dispatched
AcquireResume(t) ==
    /\ pc[t] = "post_wait"
    /\ op[t] = "Acquire"
    /\ lock = 0
    /\ mlock' = [mlock EXCEPT ![t] = 0]
    /\ waiters' = ListRemove(waiters, t)
    /\ entry_count' = entry_count - 1
    /\ pc' = [pc EXCEPT ![t] = "idle"]
    /\ IF wres[t] = "SIGNALED"
       THEN /\ count' = count - 1
            /\ nAcq' = nAcq + 1
            /\ ret' = [ret EXCEPT ![t] = "ok"]
       ELSE /\ ret' = [ret EXCEPT ![t] =
                         IF wres[t] = "INTERRUPTED" THEN "INTERRUPTED"
                                                    ELSE "SYNCHRONIZATION"]
            /\ UNCHANGED <<count, nAcq>>
    /\ UNCHANGED <<max_count, checked, lock, policy, mstate, intr, op, tmo, wres,
                   iter, impl, count0, nRel, nOps, nIntr>>

\* mutant of TryAcquireEnter: the zero-timeout path returns false without
\* erasing the caller and without decrementing entry_count_
TryAcquireEnterNoErase(t, timeout) ==
    /\ pc[t] = "idle"
    /\ lock = 0
    /\ nOps' = nOps + 1
    /\ op' = [op EXCEPT ![t] = "TryAcquire"]
    /\ tmo' = [tmo EXCEPT ![t] = timeout]
    /\ wres' = [wres EXCEPT ![t] = "IDLE"]
    /\ IF FastPath
       THEN /\ count' = count - 1
            /\ nAcq' = nAcq + 1
            /\ ret' = [ret EXCEPT ![t] = "ok"]
            /\ UNCHANGED <<entry_count, waiters, mlock, pc>>
       ELSE IF timeout = 0
       THEN /\ waiters' = ListPushBack(waiters, t)
            /\ entry_count' = entry_count + 1
            /\ ret' = [ret EXCEPT ![t] = "false"]
            /\ UNCHANGED <<count, nAcq, mlock, pc>>
       ELSE /\ MonitorFree(t)
            /\ entry_count' = entry_count + 1
            /\ waiters' = ListPushBack(waiters, t)
            /\ mlock' = [mlock EXCEPT ![t] = t]
            /\ pc' = [pc EXCEPT ![t] = "pre_wait"]
            /\ ret' = [ret EXCEPT ![t] = "none"]
            /\ UNCHANGED <<count, nAcq>>
    /\ UNCHANGED <<max_count, checked, lock, policy, mstate, intr, iter, impl,
                   count0, nRel, nIntr>>

\* SemaphoreImpl::TryAcquire(timeout) up to the wait; with timeout 0 the
\* caller is pushed, removed again and false returned without any wait
TryAcquireEnter(t, timeout) ==
    /\ pc[t] = "idle"
    /\ lock = 0
    /\ nOps' = nOps + 1
    /\ op' = [op EXCEPT ![t] = "TryAcquire"]
    /\ tmo' = [tmo EXCEPT ![t] = timeout]
    /\ wres' = [wres EXCEPT ![t] = "IDLE"]
    /\ IF FastPath
       THEN /\ count' = count - 1
            /\ nAcq' = nAcq + 1
            /\ ret' = [ret EXCEPT ![t] = "ok"]
            /\ UNCHANGED <<entry_count, waiters, mlock, pc>>
       ELSE IF timeout = 0
       THEN /\ waiters' = ListRemove(ListPushBack(waiters, t), t)
            /\ entry_count' = (entry_count + 1) - 1
            /\ ret' = [ret EXCEPT ![t] = "false"]
            /\ UNCHANGED <<count, nAcq, mlock, pc>>
       ELSE /\ MonitorFree(t)
            /\ entry_count' = entry_count + 1
            /\ waiters' = ListPushBack(waiters, t)
            /\ mlock' = [mlock EXCEPT ![t] = t]
            /\ pc' = [pc EXCEPT ![t] = "pre_wait"]
            /\ ret' = [ret EXCEPT ![t] = "none"]
            /\ UNCHANGED <<count, nAcq>>
    /\ UNCHANGED <<max_count, checked, lock, policy, mstate, intr, iter, impl,
                   count0, nRel, nIntr>>

\* mutant of TryAcquireResume: entry_count_ is not decremented
TryAcquireResumeKeepsEntry(t) ==
    /\ pc[t] = "post_wait"
    /\ op[t] = "TryAcquire"
    /\ lock = 0
    /\ mlock' = [mlock EXCEPT ![t] = 0]
    /\ waiters' = ListRemove(waiters, t)
    /\ pc' = [pc EXCEPT ![t] = "idle"]
    /\ IF wres[t] = "SIGNALED"
       THEN /\ count' = count - 1
            /\ nAcq' = nAcq + 1
            /\ ret' = [ret EXCEPT ![t] = "ok"]
       ELSE /\ ret' = [ret EXCEPT ![t] =
                         CASE wres[t] = "INTERRUPTED" -> "INTERRUPTED"
                           [] wres[t] = "TIMEDOUT" -> "false"
                           [] OTHER -> "SYNCHRONIZATION"]
            /\ UNCHANGED <<count, nAcq>>
    /\ UNCHANGED <<max_count, checked, entry_count, lock, policy, mstate, intr,
                   op, tmo, wres, iter, impl, count0, nRel, nOps, nIntr>>

\* SemaphoreImpl::TryAcquire(timeout) after the wait
TryAcquireResume(t) ==
    /\ pc[t] = "post_wait"
    /\ op[t] = "TryAcquire"
    /\ lock = 0
    /\ mlock' = [mlock EXCEPT ![t] = 0]
    /\ waiters' = ListRemove(waiters, t)
    /\ entry_count' = entry_count - 1
    /\ pc' = [pc EXCEPT ![t] = "idle"]
    /\ IF wres[t] = "SIGNALED"
       THEN /\ count' = count - 1
            /\ nAcq' = nAcq + 1
            /\ ret' = [ret EXCEPT ![t] = "ok"]
       ELSE /\ ret' = [ret EXCEPT ![t] =
                         CASE wres[t] = "INTERRUPTED" -> "INTERRUPTED"
                           [] wres[t] = "TIMEDOUT" -> "false"
                           [] OTHER -> "SYNCHRONIZATION"]
            /\ UNCHANGED <<count, nAcq>>
    /\ UNCHANGED <<max_count, checked, lock, policy, mstate, intr, op, tmo, wres,
                   iter, impl, count0, nRel, nOps, nIntr>>

\* mutant of ReleaseEnter: the count is incremented before the validity
\* test, a refused Release leaves it raised
ReleaseEnterCountsFirst(t) ==
    /\ pc[t] = "idle"
    /\ lock = 0
    /\ nOps' = nOps + 1
    /\ op' = [op EXCEPT ![t] = "Release"]
    /\ tmo' = [tmo EXCEPT ![t] = 0]
    /\ count' = count + 1
    /\ IF AtMaximum
       THEN /\ ret' = [ret EXCEPT ![t] = "INVALID_OP"]
            /\ UNCHANGED <<nRel, lock, iter, pc>>
       ELSE /\ nRel' = nRel + 1
            /\ lock' = t
            /\ iter' = 1
            /\ pc' = [pc EXCEPT ![t] = "r_walk"]
            /\ ret' = [ret EXCEPT ![t] = "none"]
    /\ UNCHANGED <<max_count, checked, entry_count, waiters, policy, monVars,
                   wres, impl, count0, nAcq, nIntr>>

\* SemaphoreImpl::Release(), entry: InvalidOpException at the maximum of a
\* checked semaphore, else the count is raised and the walk starts
ReleaseEnter(t) ==
    /\ pc[t] = "idle"
    /\ lock = 0
    /\ nOps' = nOps + 1
    /\ op' = [op EXCEPT ![t] = "Release"]
    /\ tmo' = [tmo EXCEPT ![t] = 0]
    /\ IF AtMaximum
       THEN /\ ret' = [ret EXCEPT ![t] = "INVALID_OP"]
            /\ UNCHANGED <<count, nRel, lock, iter, pc>>
       ELSE /\ count' = count + 1
            /\ nRel' = nRel + 1
            /\ lock' = t
            /\ iter' = 1
            /\ pc' = [pc EXCEPT ![t] = "r_walk"]
            /\ ret' = [ret EXCEPT ![t] = "none"]
    /\ UNCHANGED <<max_count, checked, entry_count, waiters, policy, monVars,
                   wres, impl, count0, nAcq, nIntr>>

\* mutant of ReleaseStep: a candidate that has a successor is passed over
\* without trying its Monitor
ReleaseStepPassesOver(t) ==
    /\ pc[t] = "r_walk"
    /\ iter <= Len(waiters)
    /\ IF MonitorFree(waiters[iter]) /\ iter = Len(waiters)
       THEN /\ mlock' = [mlock EXCEPT ![waiters[iter]] = t]
            /\ impl' = waiters[iter]
            /\ waiters' = ListErase(waiters, iter)
            /\ pc' = [pc EXCEPT ![t] = "r_notify"]
            /\ UNCHANGED iter
       ELSE /\ iter' = iter + 1
            /\ UNCHANGED <<mlock, impl, waiters, pc>>
    /\ UNCHANGED <<count, max_count, checked, entry_count, lock, policy, mstate,
                   intr, op, tmo, wres, ret, obsVars>>

\* mutant of ReleaseStep: the candidate's Monitor is taken with a blocking
\* Acquire() instead of TryAcquire()
ReleaseStepBlocks(t) ==
    /\ pc[t] = "r_walk"
    /\ iter <= Len(waiters)
    /\ MonitorFree(waiters[iter])
    /\ mlock' = [mlock EXCEPT ![waiters[iter]] = t]
    /\ impl' = waiters[iter]
    /\ waiters' = ListErase(waiters, iter)
    /\ pc' = [pc EXCEPT ![t] = "r_notify"]
    /\ UNCHANGED <<iter, count, max_count, checked, entry_count, lock, policy,
                   mstate, intr, op, tmo, wres, ret, obsVars>>

\* one candidate of the walk: Monitor.TryAcquire(); on success the candidate
\* is erased from waiters_ (the iterator stays), else the iterator advances
ReleaseStep(t) ==
    /\ pc[t] = "r_walk"
    /\ iter <= Len(waiters)
    /\ IF MonitorFree(waiters[iter])
       THEN /\ mlock' = [mlock EXCEPT ![waiters[iter]] = t]
            /\ impl' = waiters[iter]
            /\ waiters' = ListErase(waiters, iter)
            /\ pc' = [pc EXCEPT ![t] = "r_notify"]
            /\ UNCHANGED iter
       ELSE /\ iter' = iter + 1
            /\ UNCHANGED <<mlock, impl, waiters, pc>>
    /\ UNCHANGED <<count, max_count, checked, entry_count, lock, policy, mstate,
                   intr, op, tmo, wres, ret, obsVars>>

\* woke = m.notify(); m.Release(); if (woke) return
ReleaseNotify(t) ==
    /\ pc[t] = "r_notify"
    /\ mstate' = [mstate EXCEPT ![impl] = Notified(impl)]
    /\ mlock' = [mlock EXCEPT ![impl] = 0]
    /\ impl' = 0
    /\ IF NotifyWakes(impl)
       THEN /\ lock' = 0
            /\ iter' = 0
            /\ pc' = [pc EXCEPT ![t] = "idle"]
            /\ ret' = [ret EXCEPT ![t] = "ok"]
       ELSE /\ pc' = [pc EXCEPT ![t] = "r_walk"]
            /\ UNCHANGED <<lock, iter, ret>>
    /\ UNCHANGED <<count, max_count, checked, entry_count, waiters, policy, intr,
                   op, tmo, wres, obsVars>>

\* the walk reached waiters_.end(): return if the list is empty, else drop
\* lock_ (UnlockedScope) to yield
ReleaseWalkEnd(t) ==
    /\ pc[t] = "r_walk"
    /\ iter > Len(waiters)
    /\ lock' = 0
    /\ iter' = 0
    /\ IF waiters = <<>>
       THEN /\ pc' = [pc EXCEPT ![t] = "idle"]
            /\ ret' = [ret EXCEPT ![t] = "ok"]
       ELSE /\ pc' = [pc EXCEPT ![t] = "r_yield"]
            /\ UNCHANGED ret
    /\ UNCHANGED <<count, max_count, checked, entry_count, waiters, policy,
                   monVars, op, tmo, wres, impl, obsVars>>

\* after the yield lock_ is re-acquired and the walk restarts at begin()
ReleaseRetry(t) ==
    /\ pc[t] = "r_yield"
    /\ lock = 0
    /\ lock' = t
    /\ iter' = 1
    /\ pc' = [pc EXCEPT ![t] = "r_walk"]
    /\ UNCHANGED <<count, max_count, checked, entry_count, waiters, policy,
                   monVars, op, tmo, wres, ret, impl, obsVars>>

(* ------------- BlockingQueue / BoundedQueue / MonitoredQueue ------------ *)

\* the values handed to Add
Items == 1 .. MaxItem

\* positive timeout arguments of the timed queue operations
QTimeouts == Timeouts \ {0}

QueueOps == {"Add", "AddT", "Next", "NextT", "Cancel", "Empty", "EmptyT"}

\* the overloads taking a timeout
Timed(o) == o \in {"AddT", "NextT", "EmptyT"}

\* Size(): queue_.size() under the lock
Size == Len(queue_)

\* IsCanceled(): canceled_, read without the lock when set, else under it
IsCanceled == canceled_

\* mutant of StoragePushBack: the value is put at the front
StoragePushFront(q, v) == <<v>> \o q

\* queue_.push_back(item)
StoragePushBack(q, v) == Append(q, v)

\* mutant of IsFull: the queue counts as full one value too late
IsFullLate == Len(queue_) > capacity_

\* BoundedQueue: queue_.size() == capacity_
IsFull == Len(queue_) = capacity_

\* mutant of OnTimeout: Add(item, timeout) lets Timeout_Exception escape
OnTimeoutRaises(o) == "TIMEOUT"

\* what a timed operation makes of Timeout_Exception from its Guard or of a
\* timed Wait that returned false: Add(item, timeout) returns false,
\* Next(timeout) raises Timeout_Exception
OnTimeout(o) == IF o = "AddT" THEN "false" ELSE "TIMEOUT"

\* Condition.Signal(): the notify-donor walk over the condition's waiters. A
\* waiter whose Monitor is busy (it has left its wait and is about to remove
\* itself) is passed over, a sticky one is dropped, the first idle one is
\* notified and the walk stops.
RECURSIVE SignalWalk(_, _)
SignalWalk(list, ms) ==
    IF list = <<>>
    THEN [list |-> <<>>, ms |-> ms]
    ELSE IF ~MonitorFree(Head(list))
    THEN LET r == SignalWalk(Tail(list), ms)
         IN  [list |-> <<Head(list)>> \o r.list, ms |-> r.ms]
    ELSE IF ms[Head(list)] = "IDLE"
    THEN [list |-> Tail(list), ms |-> [ms EXCEPT ![Head(list)] = "SIGNALED"]]
    ELSE SignalWalk(Tail(list), ms)

\* Condition.Broadcast(): every waiter whose Monitor is free is dropped from
\* the list and notified
RECURSIVE BroadcastWalk(_, _)
BroadcastWalk(list, ms) ==
    IF list = <<>>
    THEN [list |-> <<>>, ms |-> ms]
    ELSE LET r == BroadcastWalk(Tail(list), ms)
             w == Head(list)
         IN  IF ~MonitorFree(w)
             THEN [list |-> <<w>> \o r.list, ms |-> r.ms]
             ELSE [list |-> r.list,
                   ms |-> [r.ms EXCEPT ![w] = IF @ = "IDLE" THEN "SIGNALED" ELSE @]]

\* Condition.Signal() comes to an end: its walk repeats (yielding) while it
\* woke nobody and waiters with a busy Monitor are left in the list
SignalSettles(list) ==
    \/ \E j \in 1 .. Len(list) : MonitorFree(list[j]) /\ mstate[list[j]] = "IDLE"
    \/ \A j \in 1 .. Len(list) : MonitorFree(list[j])

\* Condition.Broadcast() comes to an end: its walk repeats (yielding) while
\* waiters with a busy Monitor are left in the list
BroadcastSettles(list) == \A j \in 1 .. Len(list) : MonitorFree(list[j])

\* Condition.Wait() / Wait(timeout) up to the wait: the caller joins the
\* condition's waiters, takes its own Monitor and gives up the queue lock;
\* Wait(0) does not block: it gives the lock up and comes back TIMEDOUT
CondWait(t, c) ==
    /\ qlock' = 0
    /\ IF Timed(op[t]) /\ tmo[t] = 0
       THEN /\ wres' = [wres EXCEPT ![t] = "TIMEDOUT"]
            /\ pc' = [pc EXCEPT ![t] = "q_relock"]
            /\ UNCHANGED <<cond, mlock>>
       ELSE /\ cond' = [cond EXCEPT ![c] = ListPushBack(@, t)]
            /\ mlock' = [mlock EXCEPT ![t] = t]
            /\ pc' = [pc EXCEPT ![t] = "pre_wait"]
            /\ UNCHANGED wres
    /\ UNCHANGED <<ret, mstate, intr>>

\* the operation returns or throws: ~Guard() releases the queue lock
QReturn(t, r) ==
    /\ qlock' = 0
    /\ pc' = [pc EXCEPT ![t] = "idle"]
    /\ ret' = [ret EXCEPT ![t] = r]

\* what no queue step changes
qFrame == <<semVars, op, tmo, iter, impl, obsVars, ordVars, qkind, capacity_, item,
            rwVars, extVars>>

\* a queue operation is called: Guard<LockType> g(lock_) waits for the lock,
\* Guard<LockType> g(lock_, timeout) throws Timeout_Exception if it cannot
\* get it
QCall(t, o, timeout, v) ==
    /\ pc[t] = "idle"
    /\ qkind = "blocking" => o \notin {"Empty", "EmptyT"}
    /\ nOps' = nOps + 1
    /\ op' = [op EXCEPT ![t] = o]
    /\ tmo' = [tmo EXCEPT ![t] = IF Timed(o) THEN timeout ELSE 0]
    /\ item' = [item EXCEPT ![t] = IF o \in {"Add", "AddT"} THEN v ELSE @]
    /\ wres' = [wres EXCEPT ![t] = "IDLE"]
    /\ IF qlock = 0
       THEN /\ qlock' = t
            /\ pc' = [pc EXCEPT ![t] = "q_body"]
            /\ ret' = [ret EXCEPT ![t] = "none"]
       ELSE /\ Timed(o)
            /\ ret' = [ret EXCEPT ![t] = OnTimeout(o)]
            /\ UNCHANGED <<qlock, pc>>
    /\ UNCHANGED <<semVars, monVars, iter, impl, count0, nAcq, nRel, nIntr,
                   ordVars, qkind, queue_, capacity_, canceled_, cond, added,
                   removed, rwVars, extVars>>

\* Condition.Wait() after the wait: the caller releases its Monitor and
\* leaves the condition's waiters
CondLeave(t) ==
    /\ pc[t] = "post_wait"
    /\ op[t] \in QueueOps
    /\ mlock' = [mlock EXCEPT ![t] = 0]
    /\ cond' = [c \in DOMAIN cond |-> ListRemove(cond[c], t)]
    /\ pc' = [pc EXCEPT ![t] = "q_relock"]
    /\ UNCHANGED <<qFrame, mstate, intr, wres, ret, qlock, queue_, canceled_,
                   added, removed>>

\* Condition.Wait() at its end: the caller takes the queue lock again;
\* SIGNALED goes back to the caller's loop, INTERRUPTED is raised, TIMEDOUT
\* makes Wait(timeout) return false, which Empty(timeout) ignores
QResume(t) ==
    /\ pc[t] = "q_relock"
    /\ qlock = 0
    /\ IF wres[t] = "SIGNALED" \/ (wres[t] = "TIMEDOUT" /\ op[t] = "EmptyT")
       THEN /\ qlock' = t
            /\ pc' = [pc EXCEPT ![t] = "q_body"]
            /\ UNCHANGED ret
       ELSE /\ pc' = [pc EXCEPT ![t] = "idle"]
            /\ ret' = [ret EXCEPT ![t] =
                         CASE wres[t] = "INTERRUPTED" -> "INTERRUPTED"
                           [] wres[t] = "TIMEDOUT" -> OnTimeout(op[t])
                           [] OTHER -> "SYNCHRONIZATION"]
            /\ UNCHANGED qlock
    /\ UNCHANGED <<qFrame, monVars, wres, cond, queue_, canceled_, added, removed>>

\* BoundedQueue::Add(item) and Add(item, timeout), under the lock
BoundedQueueAdd(t) ==
    /\ qkind = "bounded"
    /\ pc[t] = "q_body"
    /\ op[t] \in {"Add", "AddT"}
    /\ IF IsFull /\ ~canceled_
       THEN /\ CondWait(t, "not_full")
            /\ UNCHANGED <<queue_, added>>
       ELSE IF canceled_
       THEN /\ QReturn(t, "CANCELED")
            /\ UNCHANGED <<queue_, added, cond, mstate, intr, wres, mlock>>
       ELSE /\ SignalSettles(cond.not_empty)
            /\ queue_' = StoragePushBack(queue_, item[t])
            /\ added' = Append(added, item[t])
            /\ cond' = [cond EXCEPT
                          !.not_empty = SignalWalk(cond.not_empty, mstate).list]
            /\ mstate' = SignalWalk(cond.not_empty, mstate).ms
            /\ QReturn(t, "ok")
            /\ UNCHANGED <<intr, wres, mlock>>
    /\ UNCHANGED <<qFrame, canceled_, removed>>

\* BoundedQueue::Next() and Next(timeout), under the lock
BoundedQueueNext(t) ==
    /\ qkind = "bounded"
    /\ pc[t] = "q_body"
    /\ op[t] \in {"Next", "NextT"}
    /\ IF Len(queue_) = 0 /\ ~canceled_
       THEN /\ CondWait(t, "not_empty")
            /\ UNCHANGED <<queue_, removed>>
       ELSE IF Len(queue_) = 0
       THEN /\ QReturn(t, "CANCELED")
            /\ UNCHANGED <<queue_, removed, cond, mstate, intr, wres, mlock>>
       ELSE LET r1 == SignalWalk(cond.not_full, mstate)
                r2 == IF Len(Tail(queue_)) = 0
                      THEN BroadcastWalk(cond.is_empty, r1.ms)
                      ELSE [list |-> cond.is_empty, ms |-> r1.ms]
            IN  /\ SignalSettles(cond.not_full)
                /\ Len(Tail(queue_)) = 0 => BroadcastSettles(cond.is_empty)
                /\ queue_' = Tail(queue_)
                /\ removed' = Append(removed, Head(queue_))
                /\ cond' = [cond EXCEPT !.not_full = r1.list,
                                        !.is_empty = r2.list]
                /\ mstate' = r2.ms
                /\ QReturn(t, "ok")
                /\ UNCHANGED <<intr, wres, mlock>>
    /\ UNCHANGED <<qFrame, canceled_, added>>

\* mutant of BoundedQueueCancel: the flag is flipped instead of set
BoundedQueueCancelToggles(t) ==
    /\ qkind = "bounded"
    /\ pc[t] = "q_body"
    /\ op[t] = "Cancel"
    /\ BroadcastSettles(cond.not_empty)
    /\ canceled_' = ~canceled_
    /\ cond' = [cond EXCEPT !.not_empty = BroadcastWalk(cond.not_empty, mstate).list]
    /\ mstate' = BroadcastWalk(cond.not_empty, mstate).ms
    /\ QReturn(t, "ok")
    /\ UNCHANGED <<qFrame, queue_, added, removed, intr, wres, mlock>>

\* BoundedQueue::Cancel()
BoundedQueueCancel(t) ==
    /\ qkind = "bounded"
    /\ pc[t] = "q_body"
    /\ op[t] = "Cancel"
    /\ BroadcastSettles(cond.not_empty)
    /\ canceled_' = TRUE
    /\ cond' = [cond EXCEPT !.not_empty = BroadcastWalk(cond.not_empty, mstate).list]
    /\ mstate' = BroadcastWalk(cond.not_empty, mstate).ms
    /\ QReturn(t, "ok")
    /\ UNCHANGED <<qFrame, queue_, added, removed, intr, wres, mlock>>

\* BoundedQueue::Empty() and Empty(timeout), under the lock
BoundedQueueEmpty(t) ==
    /\ qkind = "bounded"
    /\ pc[t] = "q_body"
    /\ op[t] \in {"Empty", "EmptyT"}
    /\ IF Len(queue_) > 0
       THEN CondWait(t, "is_empty")
       ELSE /\ QReturn(t, "true")
            /\ UNCHANGED <<cond, mstate, intr, wres, mlock>>
    /\ UNCHANGED <<qFrame, queue_, canceled_, added, removed>>

\* mutant of BlockingQueueAdd: the value is added whether or not the queue
\* is canceled
BlockingQueueAddUnchecked(t) ==
    /\ qkind = "blocking"
    /\ pc[t] = "q_body"
    /\ op[t] \in {"Add", "AddT"}
    /\ SignalSettles(cond.not_empty)
    /\ queue_' = StoragePushBack(queue_, item[t])
    /\ added' = Append(added, item[t])
    /\ cond' = [cond EXCEPT !.not_empty = SignalWalk(cond.not_empty, mstate).list]
    /\ mstate' = SignalWalk(cond.not_empty, mstate).ms
    /\ QReturn(t, "ok")
    /\ UNCHANGED <<qFrame, canceled_, removed, intr, wres, mlock>>

\* BlockingQueue::Add(item) and Add(item, timeout), under the lock
BlockingQueueAdd(t) ==
    /\ qkind = "blocking"
    /\ pc[t] = "q_body"
    /\ op[t] \in {"Add", "AddT"}
    /\ IF canceled_
       THEN /\ QReturn(t, "CANCELED")
            /\ UNCHANGED <<queue_, added, cond, mstate>>
       ELSE /\ SignalSettles(cond.not_empty)
            /\ queue_' = StoragePushBack(queue_, item[t])
            /\ added' = Append(added, item[t])
            /\ cond' = [cond EXCEPT
                          !.not_empty = SignalWalk(cond.not_empty, mstate).list]
            /\ mstate' = SignalWalk(cond.not_empty, mstate).ms
            /\ QReturn(t, "ok")
    /\ UNCHANGED <<qFrame, canceled_, removed, intr, wres, mlock>>

\* BlockingQueue::Next() and Next(timeout), under the lock
BlockingQueueNext(t) ==
    /\ qkind = "blocking"
    /\ pc[t] = "q_body"
    /\ op[t] \in {"Next", "NextT"}
    /\ IF Len(queue_) = 0 /\ ~canceled_
       THEN /\ CondWait(t, "not_empty")
            /\ UNCHANGED <<queue_, removed>>
       ELSE IF Len(queue_) = 0
       THEN /\ QReturn(t, "CANCELED")
            /\ UNCHANGED <<queue_, removed, cond, mstate, intr, wres, mlock>>
       ELSE /\ queue_' = Tail(queue_)
            /\ removed' = Append(removed, Head(queue_))
            /\ QReturn(t, "ok")
            /\ UNCHANGED <<cond, mstate, intr, wres, mlock>>
    /\ UNCHANGED <<qFrame, canceled_, added>>

\* mutant of BlockingQueueCancel: the flag is set without any broadcast
BlockingQueueCancelSilent(t) ==
    /\ qkind = "blocking"
    /\ pc[t] = "q_body"
    /\ op[t] = "Cancel"
    /\ canceled_' = TRUE
    /\ QReturn(t, "ok")
    /\ UNCHANGED <<qFrame, queue_, added, removed, cond, monVars, wres>>

\* BlockingQueue::Cancel(): the broadcast comes before the flag is set, both
\* under the lock
BlockingQueueCancel(t) ==
    /\ qkind = "blocking"
    /\ pc[t] = "q_body"
    /\ op[t] = "Cancel"
    /\ BroadcastSettles(cond.not_empty)
    /\ cond' = [cond EXCEPT !.not_empty = BroadcastWalk(cond.not_empty, mstate).list]
    /\ mstate' = BroadcastWalk(cond.not_empty, mstate).ms
    /\ canceled_' = TRUE
    /\ QReturn(t, "ok")
    /\ UNCHANGED <<qFrame, queue_, added, removed, intr, wres, mlock>>

\* MonitoredQueue::Add(item) and Add(item, timeout), under the lock
MonitoredQueueAdd(t) ==
    /\ qkind = "monitored"
    /\ pc[t] = "q_body"
    /\ op[t] \in {"Add", "AddT"}
    /\ IF canceled_
       THEN /\ QReturn(t, "CANCELED")
            /\ UNCHANGED <<queue_, added, cond, mstate>>
       ELSE /\ SignalSettles(cond.not_empty)
            /\ queue_' = StoragePushBack(queue_, item[t])
            /\ added' = Append(added, item[t])
            /\ cond' = [cond EXCEPT
                          !.not_empty = SignalWalk(cond.not_empty, mstate).list]
            /\ mstate' = SignalWalk(cond.not_empty, mstate).ms
            /\ QReturn(t, "ok")
    /\ UNCHANGED <<qFrame, canceled_, removed, intr, wres, mlock>>

\* MonitoredQueue::Next() and Next(timeout), under the lock
MonitoredQueueNext(t) ==
    /\ qkind = "monitored"
    /\ pc[t] = "q_body"
    /\ op[t] \in {"Next", "NextT"}
    /\ IF Len(queue_) = 0 /\ ~canceled_
       THEN /\ CondWait(t, "not_empty")
            /\ UNCHANGED <<queue_, removed>>
       ELSE IF Len(queue_) = 0
       THEN /\ QReturn(t, "CANCELED")
            /\ UNCHANGED <<queue_, removed, cond, mstate, intr, wres, mlock>>
       ELSE LET r == IF Len(Tail(queue_)) = 0
                     THEN BroadcastWalk(cond.is_empty, mstate)
                     ELSE [list |-> cond.is_empty, ms |-> mstate]
            IN  /\ Len(Tail(queue_)) = 0 => BroadcastSettles(cond.is_empty)
                /\ queue_' = Tail(queue_)
                /\ removed' = Append(removed, Head(queue_))
                /\ cond' = [cond EXCEPT !.is_empty = r.list]
                /\ mstate' = r.ms
                /\ QReturn(t, "ok")
                /\ UNCHANGED <<intr, wres, mlock>>
    /\ UNCHANGED <<qFrame, canceled_, added>>

\* MonitoredQueue::Cancel()
MonitoredQueueCancel(t) ==
    /\ qkind = "monitored"
    /\ pc[t] = "q_body"
    /\ op[t] = "Cancel"
    /\ BroadcastSettles(cond.not_empty)
    /\ canceled_' = TRUE
    /\ cond' = [cond EXCEPT !.not_empty = BroadcastWalk(cond.not_empty, mstate).list]
    /\ mstate' = BroadcastWalk(cond.not_empty, mstate).ms
    /\ QReturn(t, "ok")
    /\ UNCHANGED <<qFrame, queue_, added, removed, intr, wres, mlock>>

\* mutant of MonitoredQueueEmpty: returns true without looking at the size
MonitoredQueueEmptyNoWait(t) ==
    /\ qkind = "monitored"
    /\ pc[t] = "q_body"
    /\ op[t] \in {"Empty", "EmptyT"}
    /\ QReturn(t, "true")
    /\ UNCHANGED <<cond, mstate, intr, wres, mlock>>
    /\ UNCHANGED <<qFrame, queue_, canceled_, added, removed>>

\* MonitoredQueue::empty() and empty(timeout), under the lock
MonitoredQueueEmpty(t) ==
    /\ qkind = "monitored"
    /\ pc[t] = "q_body"
    /\ op[t] \in {"Empty", "EmptyT"}
    /\ IF Len(queue_) > 0
       THEN CondWait(t, "is_empty")
       ELSE /\ QReturn(t, "true")
            /\ UNCHANGED <<cond, mstate, intr, wres, mlock>>
    /\ UNCHANGED <<qFrame, queue_, canceled_, added, removed>>

(* ------------------------- BiasedReadWriteLock -------------------------- *)

\* ReadLock / WriteLock :: Acquire, TryAcquire(timeout), Release
RWAcquireOps == {"RAcquire", "RTryAcquire", "WAcquire", "WTryAcquire"}
RWReleaseOps == {"RRelease", "WRelease"}
RWOps == RWAcquireOps \cup RWReleaseOps

\* the operations of the ReadLock
IsRead(o) == o \in {"RAcquire", "RTryAcquire", "RRelease"}

\* TryAcquire(timeout): BeforeReadAttempt / BeforeWriteAttempt
RWTimed(o) == o \in {"RTryAcquire", "WTryAcquire"}

\* the lock an operation is about, as its caller names what it holds
RWKind(o) == IF IsRead(o) THEN "read" ELSE "write"

\* mutant of AllowReader: a reader is kept out while a writer is waiting
AllowReaderBehindWriters == active_writers_ = 0 /\ waiting_writers_ = 0

\* BiasedReadWriteLock::AllowReader()
AllowReader == active_writers_ = 0

\* mutant of AllowWriter: the active readers are not looked at
AllowWriterOverReaders == active_writers_ = 0

\* BiasedReadWriteLock::AllowWriter()
AllowWriter == active_writers_ = 0 /\ active_readers_ = 0

\* what no step of the read-write lock changes
rwFrame == <<semVars, iter, impl, count0, nAcq, nRel, nIntr, ordVars, qVars,
             extVars>>

\* BeforeRead / BeforeReadAttempt / BeforeWrite / BeforeWriteAttempt up to
\* the loop: the Guard takes lock_, result = false, ++waiting_xxx_
RWBefore(t, o, timeout) ==
    /\ pc[t] = "idle"
    /\ o \in RWAcquireOps
    /\ held[t] = "none"
    /\ rwlock = 0
    /\ rwlock' = t
    /\ nOps' = nOps + 1
    /\ op' = [op EXCEPT ![t] = o]
    /\ tmo' = [tmo EXCEPT ![t] = IF RWTimed(o) THEN timeout ELSE 0]
    /\ wres' = [wres EXCEPT ![t] = "IDLE"]
    /\ ret' = [ret EXCEPT ![t] = "none"]
    /\ result' = [result EXCEPT ![t] = FALSE]
    /\ IF IsRead(o)
       THEN /\ waiting_readers_' = waiting_readers_ + 1
            /\ UNCHANGED waiting_writers_
       ELSE /\ waiting_writers_' = waiting_writers_ + 1
            /\ UNCHANGED waiting_readers_
    /\ pc' = [pc EXCEPT ![t] = "rw_loop"]
    /\ UNCHANGED <<rwFrame, monVars, active_writers_, active_readers_, rwcond,
                   wake, held>>

\* the loop of BeforeRead / BeforeWrite (and the Attempt forms), under lock_:
\* while the caller is not allowed in it waits on its condition (Wait gives
\* lock_ up; Wait(0) comes back at once); once allowed, --waiting_xxx_,
\* ++active_xxx_, and the Guard releases lock_. Acquire returns, TryAcquire
\* returns `result`; the caller holds the lock if it was told so
RWLoop(t) ==
    /\ pc[t] = "rw_loop"
    /\ rwlock' = 0
    /\ IF (IF IsRead(op[t]) THEN AllowReader ELSE AllowWriter)
       THEN /\ IF IsRead(op[t])
               THEN /\ waiting_readers_' = waiting_readers_ - 1
                    /\ active_readers_' = active_readers_ + 1
                    /\ UNCHANGED <<waiting_writers_, active_writers_>>
               ELSE /\ waiting_writers_' = waiting_writers_ - 1
                    /\ active_writers_' = active_writers_ + 1
                    /\ UNCHANGED <<waiting_readers_, active_readers_>>
            /\ pc' = [pc EXCEPT ![t] = "idle"]
            /\ ret' = [ret EXCEPT ![t] =
                         IF ~RWTimed(op[t]) THEN "ok"
                         ELSE IF result[t] THEN "true" ELSE "false"]
            /\ held' = [held EXCEPT ![t] =
                          IF RWTimed(op[t]) /\ ~result[t] THEN @
                          ELSE RWKind(op[t])]
            /\ UNCHANGED <<rwcond, mlock, wres>>
       ELSE /\ IF RWTimed(op[t]) /\ tmo[t] = 0
               THEN /\ wres' = [wres EXCEPT ![t] = "TIMEDOUT"]
                    /\ pc' = [pc EXCEPT ![t] = "rw_relock"]
                    /\ UNCHANGED <<rwcond, mlock>>
               ELSE /\ rwcond' = [rwcond EXCEPT
                                    ![IF IsRead(op[t]) THEN "cond_read_"
                                      ELSE "cond_write_"] = ListPushBack(@, t)]
                    /\ mlock' = [mlock EXCEPT ![t] = t]
                    /\ pc' = [pc EXCEPT ![t] = "pre_wait"]
                    /\ UNCHANGED wres
            /\ UNCHANGED <<waiting_readers_, waiting_writers_, active_readers_,
                           active_writers_, ret, held>>
    /\ UNCHANGED <<rwFrame, nOps, op, tmo, mstate, intr, result, wake>>

\* Condition.Wait() after the wait: the caller releases its Monitor and
\* leaves the condition's waiters
RWCondLeave(t) ==
    /\ pc[t] = "post_wait"
    /\ op[t] \in RWOps
    /\ mlock' = [mlock EXCEPT ![t] = 0]
    /\ rwcond' = [c \in DOMAIN rwcond |-> ListRemove(rwcond[c], t)]
    /\ pc' = [pc EXCEPT ![t] = "rw_relock"]
    /\ UNCHANGED <<rwFrame, nOps, op, tmo, wres, ret, mstate, intr,
                   active_writers_, active_readers_, waiting_readers_,
                   waiting_writers_, rwlock, result, wake, held>>

\* Condition.Wait() at its end: the caller takes lock_ again. SIGNALED:
\* Wait returns (true); TIMEDOUT: Wait(timeout) returns false; both go on
\* with the loop. INTERRUPTED: Wait throws, the catch block takes the caller
\* off the waiting count and rethrows, the Guard releases lock_
RWResume(t) ==
    /\ pc[t] = "rw_relock"
    /\ rwlock = 0
    /\ IF wres[t] \in {"SIGNALED", "TIMEDOUT"}
       THEN /\ rwlock' = t
            /\ result' = [result EXCEPT ![t] = (wres[t] = "SIGNALED")]
            /\ pc' = [pc EXCEPT ![t] = "rw_loop"]
            /\ UNCHANGED <<ret, waiting_readers_, waiting_writers_>>
       ELSE /\ IF IsRead(op[t])
               THEN /\ waiting_readers_' = waiting_readers_ - 1
                    /\ UNCHANGED waiting_writers_
               ELSE /\ waiting_writers_' = waiting_writers_ - 1
                    /\ UNCHANGED waiting_readers_
            /\ pc' = [pc EXCEPT ![t] = "idle"]
            /\ ret' = [ret EXCEPT ![t] =
                         IF wres[t] = "INTERRUPTED" THEN "INTERRUPTED"
                         ELSE "SYNCHRONIZATION"]
            /\ UNCHANGED <<rwlock, result>>
    /\ UNCHANGED <<rwFrame, nOps, op, tmo, wres, monVars, active_writers_,
                   active_readers_, rwcond, wake, held>>

\* AfterRead / AfterWrite, the guarded block: --active_xxx_ and the two
\* wake flags are read; called by a thread that holds the lock it releases
RWAfter(t, o) ==
    /\ pc[t] = "idle"
    /\ o \in RWReleaseOps
    /\ held[t] = RWKind(o)
    /\ rwlock = 0
    /\ nOps' = nOps + 1
    /\ op' = [op EXCEPT ![t] = o]
    /\ tmo' = [tmo EXCEPT ![t] = 0]
    /\ held' = [held EXCEPT ![t] = "none"]
    /\ IF IsRead(o)
       THEN /\ active_readers_' = active_readers_ - 1
            /\ UNCHANGED active_writers_
       ELSE /\ active_writers_' = active_writers_ - 1
            /\ UNCHANGED active_readers_
    /\ wake' = [wake EXCEPT ![t] =
                  IF waiting_writers_ > 0 THEN "writer"
                  ELSE IF waiting_readers_ > 0 THEN "reader" ELSE "none"]
    /\ IF waiting_writers_ > 0 \/ waiting_readers_ > 0
       THEN /\ pc' = [pc EXCEPT ![t] = "rw_signal"]
            /\ ret' = [ret EXCEPT ![t] = "none"]
       ELSE /\ pc' = [pc EXCEPT ![t] = "idle"]
            /\ ret' = [ret EXCEPT ![t] = "ok"]
    /\ UNCHANGED <<rwFrame, monVars, wres, waiting_readers_, waiting_writers_,
                   rwlock, rwcond, result>>

\* mutant of RWSignal: Signal() returns without waking anybody
RWSignalNobody(t) ==
    /\ pc[t] = "rw_signal"
    /\ pc' = [pc EXCEPT ![t] = "idle"]
    /\ ret' = [ret EXCEPT ![t] = "ok"]
    /\ UNCHANGED <<rwFrame, nOps, op, tmo, wres, monVars, active_writers_,
                   active_readers_, waiting_readers_, waiting_writers_, rwlock,
                   rwcond, result, wake, held>>

\* AfterRead / AfterWrite, after the guarded block: cond_write_.Signal() if
\* a writer was waiting, else cond_read_.Signal() if a reader was
RWSignal(t) ==
    /\ pc[t] = "rw_signal"
    /\ LET c == IF wake[t] = "writer" THEN "cond_write_" ELSE "cond_read_"
           r == SignalWalk(rwcond[c], mstate)
       IN  /\ SignalSettles(rwcond[c])
           /\ rwcond' = [rwcond EXCEPT ![c] = r.list]
           /\ mstate' = r.ms
    /\ pc' = [pc EXCEPT ![t] = "idle"]
    /\ ret' = [ret EXCEPT ![t] = "ok"]
    /\ UNCHANGED <<rwFrame, nOps, op, tmo, wres, intr, mlock, active_writers_,
                   active_readers_, waiting_readers_, waiting_writers_, rwlock,
                   result, wake, held>>

(* ----------------------- CountedPtr / AtomicCount ----------------------- *)

\* the handles (CountedPtr objects) a behaviour may have at one time
Handles == 1 .. MaxHandles

\* what no step of a CountedPtr changes
ptrFrame == <<semVars, monVars, tmo, wres, ret, iter, impl, count0, nAcq, nRel,
              nIntr, ordVars, qVars, rwVars, fairVars, scopeVars, flVars>>

\* AtomicCount::operator++(int): the value stored by __sync_fetch_and_add
AtomicIncrement(v) == v + 1

\* AtomicCount::operator--(): the value stored by __sync_sub_and_fetch
AtomicDecrement(v) == v - 1

\* mutant of PrefixDecrementResult: the previous value is returned, as the
\* postfix operator--(int) does
PostfixDecrementResult(v) == v

\* AtomicCount::operator--(): returns the current (decremented) value
PrefixDecrementResult(v) == AtomicDecrement(v)

\* handle h is being copied by a constructor in progress: its owner must
\* keep it alive until that constructor returns
CopiedFrom(h) == \E d \in Handles : hstate[d] = "copying" /\ hsrc[d] = h

\* explicit CountedPtr(T* raw): count_(new CountT()), instance_(raw),
\* (*count_)++. The one shared object of a behaviour is wrapped once
PtrWrap(t, h) ==
    /\ pc[t] = "idle"
    /\ hstate[h] = "none"
    /\ ~alive /\ deletes = 0
    /\ nOps' = nOps + 1
    /\ op' = [op EXCEPT ![t] = "Wrap"]
    /\ alive' = TRUE
    /\ value' = AtomicIncrement(0)
    /\ hcount' = [hcount EXCEPT ![h] = 1]
    /\ hstate' = [hstate EXCEPT ![h] = "live"]
    /\ UNCHANGED <<ptrFrame, pc, hsrc, hcur, deletes, asserted, dangling>>

\* CountedPtr(): count_(0), instance_(0)
PtrDefault(t, h) ==
    /\ pc[t] = "idle"
    /\ hstate[h] = "none"
    /\ nOps' = nOps + 1
    /\ op' = [op EXCEPT ![t] = "Default"]
    /\ hcount' = [hcount EXCEPT ![h] = 0]
    /\ hstate' = [hstate EXCEPT ![h] = "live"]
    /\ UNCHANGED <<ptrFrame, pc, hsrc, hcur, value, alive, deletes, asserted,
                   dangling>>

\* CountedPtr(const CountedPtr& ptr), the member initialisers:
\* count_(ptr.count_), instance_(ptr.instance_)
PtrCopyInit(t, src, dst) ==
    /\ pc[t] = "idle"
    /\ src # dst
    /\ hstate[src] = "live"
    /\ hstate[dst] = "none"
    /\ nOps' = nOps + 1
    /\ op' = [op EXCEPT ![t] = "Copy"]
    /\ hcount' = [hcount EXCEPT ![dst] = hcount[src]]
    /\ hsrc' = [hsrc EXCEPT ![dst] = src]
    /\ hstate' = [hstate EXCEPT ![dst] = "copying"]
    /\ hcur' = [hcur EXCEPT ![t] = dst]
    /\ pc' = [pc EXCEPT ![t] = "cp_incr"]
    /\ UNCHANGED <<ptrFrame, value, alive, deletes, asserted, dangling>>

\* CountedPtr(const CountedPtr& ptr), the body: if (count_) (*count_)++
PtrCopyIncr(t) ==
    /\ pc[t] = "cp_incr"
    /\ LET h == hcur[t]
       IN  /\ IF hcount[h] # 0
              THEN IF alive
                   THEN value' = AtomicIncrement(value) /\ UNCHANGED dangling
                   ELSE dangling' = TRUE /\ UNCHANGED value
              ELSE UNCHANGED <<value, dangling>>
           /\ hstate' = [hstate EXCEPT ![h] = "live"]
           /\ hsrc' = [hsrc EXCEPT ![h] = 0]
    /\ hcur' = [hcur EXCEPT ![t] = 0]
    /\ pc' = [pc EXCEPT ![t] = "idle"]
    /\ UNCHANGED <<ptrFrame, nOps, op, hcount, alive, deletes, asserted>>

\* ~CountedPtr(), the test: count_ && --(*count_) == 0. The handle is one
\* that no constructor in progress copies
PtrDestroy(t, h) ==
    /\ pc[t] = "idle"
    /\ hstate[h] = "live"
    /\ ~CopiedFrom(h)
    /\ nOps' = nOps + 1
    /\ op' = [op EXCEPT ![t] = "Destroy"]
    /\ IF hcount[h] = 0
       THEN /\ hstate' = [hstate EXCEPT ![h] = "none"]
            /\ UNCHANGED <<value, dangling, hcur, pc>>
       ELSE IF ~alive
       THEN /\ dangling' = TRUE
            /\ hstate' = [hstate EXCEPT ![h] = "none"]
            /\ UNCHANGED <<value, hcur, pc>>
       ELSE /\ value' = AtomicDecrement(value)
            /\ UNCHANGED dangling
            /\ IF PrefixDecrementResult(value) = 0
               THEN /\ hstate' = [hstate EXCEPT ![h] = "dying"]
                    /\ hcur' = [hcur EXCEPT ![t] = h]
                    /\ pc' = [pc EXCEPT ![t] = "dt_delete"]
               ELSE /\ hstate' = [hstate EXCEPT ![h] = "none"]
                    /\ UNCHANGED <<hcur, pc>>
    /\ UNCHANGED <<ptrFrame, hsrc, hcount, alive, deletes, asserted>>

\* ~CountedPtr(), the block: if (instance_) delete instance_; delete count_,
\* which runs ~AtomicCount(): assert(value == 0), delete _value
PtrDelete(t) ==
    /\ pc[t] = "dt_delete"
    /\ deletes' = deletes + 1
    /\ asserted' = (asserted \/ value # 0)
    /\ IF alive
       THEN alive' = FALSE /\ UNCHANGED dangling
       ELSE dangling' = TRUE /\ UNCHANGED alive
    /\ hstate' = [hstate EXCEPT ![hcur[t]] = "none"]
    /\ hcur' = [hcur EXCEPT ![t] = 0]
    /\ pc' = [pc EXCEPT ![t] = "idle"]
    /\ UNCHANGED <<ptrFrame, nOps, op, hsrc, hcount, value>>

(* -------------------------- FairReadWriteLock --------------------------- *)

\* ReadLock / WriteLock :: Acquire, TryAcquire(timeout), Release
FairAcquireOps == {"FRAcquire", "FRTryAcquire", "FWAcquire", "FWTryAcquire"}
FairReleaseOps == {"FRRelease", "FWRelease"}
FairOps == FairAcquireOps \cup FairReleaseOps

\* the operations of the ReadLock
FairIsRead(o) == o \in {"FRAcquire", "FRTryAcquire", "FRRelease"}

\* TryAcquire(timeout)
FairTimed(o) == o \in {"FRTryAcquire", "FWTryAcquire"}

\* the lock an operation is about, as its caller names what it holds
FairKind(o) == IF FairIsRead(o) THEN "read" ELSE "write"

\* what no step of the fair read-write lock changes
fFrame == <<semVars, iter, impl, count0, nAcq, nRel, nIntr, ordVars, qVars,
            rwVars, ptrVars, scopeVars, flVars>>

\* Mutex: lock_ can be taken at once iff it is free and nobody queues for it
MutexAvailable == mtx = 0 /\ mtxq = <<>>

\* mutant of FairWriterMayEnter: the writer does not wait for the readers
FairWriterEntersAtOnce == TRUE

\* the test of the writer's loop, `while (readers_ > 0) cond_.Wait()`
FairWriterMayEnter == ~(readers_ > 0)

\* an operation is called. WriteLock::Release() is lock_.Release(). Every
\* other operation starts by taking lock_ (Guard, lock_.Acquire() or
\* lock_.TryAcquire(timeout)): at once if it is available, else the caller
\* queues for it; TryAcquire(0) does not queue and returns false
FairCall(t, o, timeout) ==
    /\ pc[t] = "idle"
    /\ o \in FairOps
    /\ IF o \in FairAcquireOps THEN fheld[t] = "none" ELSE fheld[t] = FairKind(o)
    /\ nOps' = nOps + 1
    /\ stamp' = [stamp EXCEPT ![t] = nOps + 1]
    /\ op' = [op EXCEPT ![t] = o]
    /\ tmo' = [tmo EXCEPT ![t] = IF FairTimed(o) THEN timeout ELSE 0]
    /\ wres' = [wres EXCEPT ![t] = "IDLE"]
    /\ IF o = "FWRelease"
       THEN /\ mtx' = 0
            /\ fheld' = [fheld EXCEPT ![t] = "none"]
            /\ ret' = [ret EXCEPT ![t] = "ok"]
            /\ UNCHANGED <<pc, mtxq>>
       ELSE IF MutexAvailable
       THEN /\ mtx' = t
            /\ pc' = [pc EXCEPT ![t] = "f_body"]
            /\ ret' = [ret EXCEPT ![t] = "none"]
            /\ UNCHANGED <<mtxq, fheld>>
       ELSE IF FairTimed(o) /\ timeout = 0
       THEN /\ ret' = [ret EXCEPT ![t] = "false"]
            /\ UNCHANGED <<pc, mtx, mtxq, fheld>>
       ELSE /\ mtxq' = Append(mtxq, t)
            /\ pc' = [pc EXCEPT ![t] = "m_wait"]
            /\ ret' = [ret EXCEPT ![t] = "none"]
            /\ UNCHANGED <<mtx, fheld>>
    /\ UNCHANGED <<fFrame, monVars, readers_, fcond>>

\* Mutex: the thread at the head of the queue takes lock_ once it is free
FairMutexGrant(t) ==
    /\ pc[t] = "m_wait"
    /\ mtx = 0
    /\ mtxq # <<>> /\ Head(mtxq) = t
    /\ mtx' = t
    /\ mtxq' = Tail(mtxq)
    /\ pc' = [pc EXCEPT ![t] = "f_body"]
    /\ UNCHANGED <<fFrame, nOps, op, tmo, wres, ret, monVars, readers_, fcond,
                   fheld, stamp>>

\* lock_.TryAcquire(timeout) expires while the caller queues for lock_:
\* TryAcquire returns false (the relock inside Condition.Wait is not timed)
FairMutexTimeout(t) ==
    /\ pc[t] = "m_wait"
    /\ FairTimed(op[t]) /\ tmo[t] > 0
    /\ wres[t] = "IDLE"
    /\ mtxq' = ListRemove(mtxq, t)
    /\ pc' = [pc EXCEPT ![t] = "idle"]
    /\ ret' = [ret EXCEPT ![t] = "false"]
    /\ UNCHANGED <<fFrame, nOps, op, tmo, wres, monVars, readers_, mtx, fcond,
                   fheld, stamp>>

\* ReadLock::Acquire / TryAcquire with lock_ held: ++readers_, release lock_
FairReadEnter(t) ==
    /\ pc[t] = "f_body"
    /\ op[t] \in {"FRAcquire", "FRTryAcquire"}
    /\ readers_' = readers_ + 1
    /\ mtx' = 0
    /\ fheld' = [fheld EXCEPT ![t] = "read"]
    /\ pc' = [pc EXCEPT ![t] = "idle"]
    /\ ret' = [ret EXCEPT ![t] = IF FairTimed(op[t]) THEN "true" ELSE "ok"]
    /\ UNCHANGED <<fFrame, nOps, op, tmo, wres, monVars, mtxq, fcond, stamp>>

\* ReadLock::Release with lock_ held: --readers_, cond_.Signal() if it is
\* the last reader, release lock_
FairReadRelease(t) ==
    /\ pc[t] = "f_body"
    /\ op[t] = "FRRelease"
    /\ readers_' = readers_ - 1
    /\ IF readers_ - 1 = 0
       THEN /\ SignalSettles(fcond)
            /\ fcond' = SignalWalk(fcond, mstate).list
            /\ mstate' = SignalWalk(fcond, mstate).ms
       ELSE UNCHANGED <<fcond, mstate>>
    /\ mtx' = 0
    /\ fheld' = [fheld EXCEPT ![t] = "none"]
    /\ pc' = [pc EXCEPT ![t] = "idle"]
    /\ ret' = [ret EXCEPT ![t] = "ok"]
    /\ UNCHANGED <<fFrame, nOps, op, tmo, wres, intr, mlock, mtxq, stamp>>

\* WriteLock::Acquire / TryAcquire with lock_ held: an INTERRUPTED wait
\* throws into the catch block, which releases lock_; while readers are
\* active the writer waits on cond_ (Wait gives lock_ up; Wait(0) comes back
\* at once; the result of Wait(timeout) is not looked at); else it returns
\* and keeps lock_
FairWriteLoop(t) ==
    /\ pc[t] = "f_body"
    /\ op[t] \in {"FWAcquire", "FWTryAcquire"}
    /\ IF wres[t] \notin {"IDLE", "SIGNALED", "TIMEDOUT"}
       THEN /\ mtx' = 0
            /\ pc' = [pc EXCEPT ![t] = "idle"]
            /\ ret' = [ret EXCEPT ![t] =
                         IF wres[t] = "INTERRUPTED" THEN "INTERRUPTED"
                         ELSE "SYNCHRONIZATION"]
            /\ UNCHANGED <<fcond, mlock, wres, fheld>>
       ELSE IF ~FairWriterMayEnter
       THEN /\ mtx' = 0
            /\ IF FairTimed(op[t]) /\ tmo[t] = 0
               THEN /\ wres' = [wres EXCEPT ![t] = "TIMEDOUT"]
                    /\ pc' = [pc EXCEPT ![t] = "f_relock"]
                    /\ UNCHANGED <<fcond, mlock>>
               ELSE /\ fcond' = ListPushBack(fcond, t)
                    /\ mlock' = [mlock EXCEPT ![t] = t]
                    /\ pc' = [pc EXCEPT ![t] = "pre_wait"]
                    /\ UNCHANGED wres
            /\ UNCHANGED <<ret, fheld>>
       ELSE /\ fheld' = [fheld EXCEPT ![t] = "write"]
            /\ pc' = [pc EXCEPT ![t] = "idle"]
            /\ ret' = [ret EXCEPT ![t] = IF FairTimed(op[t]) THEN "true" ELSE "ok"]
            /\ UNCHANGED <<mtx, fcond, mlock, wres>>
    /\ UNCHANGED <<fFrame, nOps, op, tmo, mstate, intr, readers_, mtxq, stamp>>

\* Condition.Wait() after the wait: the caller releases its Monitor and
\* leaves the condition's waiters
FairCondLeave(t) ==
    /\ pc[t] = "post_wait"
    /\ op[t] \in FairOps
    /\ mlock' = [mlock EXCEPT ![t] = 0]
    /\ fcond' = ListRemove(fcond, t)
    /\ pc' = [pc EXCEPT ![t] = "f_relock"]
    /\ UNCHANGED <<fFrame, nOps, op, tmo, wres, ret, mstate, intr, readers_, mtx,
                   mtxq, fheld, stamp>>

\* Condition.Wait() at its end: the caller takes lock_ again, at once if it
\* is available, else behind the threads that queue for it
FairRelock(t) ==
    /\ pc[t] = "f_relock"
    /\ IF MutexAvailable
       THEN /\ mtx' = t
            /\ pc' = [pc EXCEPT ![t] = "f_body"]
            /\ UNCHANGED mtxq
       ELSE /\ mtxq' = Append(mtxq, t)
            /\ pc' = [pc EXCEPT ![t] = "m_wait"]
            /\ UNCHANGED mtx
    /\ UNCHANGED <<fFrame, nOps, op, tmo, wres, ret, monVars, readers_, fcond,
                   fheld, stamp>>

(* ------------------------ Guard / CompoundScope ------------------------- *)

\* what no step of a guard changes
scopeFrame == <<semVars, monVars, thrVars, obsVars, ordVars, qVars, rwVars,
                fairVars, ptrVars, flVars>>

\* the policies a CompoundScope can be instantiated with for Guard(lock):
\* UnlockedScope::CreateScope calls l.getLock(), which LockHolder does not
\* have, so that a CompoundScope over it does not compile
Policies == {"LockedScope", "TimedLockedScope"}

\* the policies with a timed CreateScope(l, ms): LockedScope alone
TimedPolicies == {"LockedScope"}

\* one call on the lock, made for scope i (1 or 2) on creation or destruction
LockCall(i, what, call, ok) == [scope |-> i, what |-> what, call |-> call, ok |-> ok]

\* LockedScope::CreateScope(l) is l.GetLock().Acquire();
\* TimedLockedScope::CreateScope(l) is l.GetLock().TryAcquire(TimeOut)
CreateCall(p) == IF p = "LockedScope" THEN "Acquire" ELSE "TryAcquire"

\* TimedLockedScope::CreateScope throws TimeoutException when TryAcquire
\* returns false (ok is TryAcquire's result); LockedScope's Acquire() returns
CreateThrows(p, ok) == p = "TimedLockedScope" /\ ~ok

\* CompoundScope::CreateScope(l), run by Guard(lock): Scope1::CreateScope,
\* then Scope2::CreateScope. An exception of either leaves the constructor,
\* no guard exists, and what was created before it stays as it is
CreateScope(s1, s2, ok1, ok2) ==
    /\ guard = "none"
    /\ Scope1' = s1
    /\ Scope2' = s2
    /\ sop' = "CreateScope"
    /\ holds0' = holds
    /\ nScopeOps' = nScopeOps + 1
    /\ IF CreateThrows(s1, ok1)
       THEN /\ calls' = <<LockCall(1, "Create", CreateCall(s1), FALSE)>>
            /\ sret' = "TIMEOUT"
            /\ UNCHANGED <<holds, applied, guard>>
       ELSE IF CreateThrows(s2, ok2)
       THEN /\ calls' = <<LockCall(1, "Create", CreateCall(s1), TRUE),
                          LockCall(2, "Create", CreateCall(s2), FALSE)>>
            /\ holds' = holds + 1
            /\ applied' = applied \cup {1}
            /\ sret' = "TIMEOUT"
            /\ UNCHANGED guard
       ELSE /\ calls' = <<LockCall(1, "Create", CreateCall(s1), TRUE),
                          LockCall(2, "Create", CreateCall(s2), TRUE)>>
            /\ holds' = holds + 2
            /\ applied' = applied \cup {1, 2}
            /\ sret' = "ok"
            /\ guard' = "live"
    /\ UNCHANGED scopeFrame

\* CompoundScope::CreateScope(l, ms), run by Guard(lock, timeout):
\*   if (Scope1::CreateScope(l, ms))
\*     if (!Scope2::CreateScope(l, ms)) { Scope1::DestroyScope(l); return false; }
\*   return true;
\* ok1, ok2 are the results of the two TryAcquire(ms); the constructor throws
\* TimeoutException on false and completes on true
CreateScopeTimed(s1, s2, ok1, ok2) ==
    /\ guard = "none"
    /\ s1 \in TimedPolicies
    /\ s2 \in TimedPolicies
    /\ Scope1' = s1
    /\ Scope2' = s2
    /\ sop' = "CreateScopeTimed"
    /\ holds0' = holds
    /\ nScopeOps' = nScopeOps + 1
    /\ IF ok1
       THEN IF ~ok2
            THEN /\ calls' = <<LockCall(1, "Create", "TryAcquire", TRUE),
                               LockCall(2, "Create", "TryAcquire", FALSE),
                               LockCall(1, "Destroy", "Release", TRUE)>>
                 /\ sret' = "false"
                 /\ UNCHANGED <<holds, applied, guard>>
            ELSE /\ calls' = <<LockCall(1, "Create", "TryAcquire", TRUE),
                               LockCall(2, "Create", "TryAcquire", TRUE)>>
                 /\ holds' = holds + 2
                 /\ applied' = applied \cup {1, 2}
                 /\ sret' = "true"
                 /\ guard' = "live"
       ELSE /\ calls' = <<LockCall(1, "Create", "TryAcquire", FALSE)>>
            /\ sret' = "true"
            /\ guard' = "live"
            /\ UNCHANGED <<holds, applied>>
    /\ UNCHANGED scopeFrame

\* CompoundScope::DestroyScope(l), run by ~Guard(): Scope1::DestroyScope, then
\* Scope2::DestroyScope, each l.GetLock().Release() for both policies; the
\* destructor swallows what they throw
DestroyScope ==
    /\ guard = "live"
    /\ sop' = "DestroyScope"
    /\ holds0' = holds
    /\ nScopeOps' = nScopeOps + 1
    /\ calls' = <<LockCall(1, "Destroy", "Release", TRUE),
                  LockCall(2, "Destroy", "Release", TRUE)>>
    /\ holds' = holds - 2
    /\ applied' = applied \ {1, 2}
    /\ sret' = "ok"
    /\ guard' = "none"
    /\ UNCHANGED <<Scope1, Scope2, scopeFrame>>

(* ------------------------------- FastLock ------------------------------- *)

\* what no step of the FastLock changes
flFrame == <<semVars, monVars, thrVars, obsVars, ordVars, qVars, rwVars,
             fairVars, ptrVars, scopeVars>>

\* __sync_sub_and_fetch(&_value, 1) and __sync_add_and_fetch(&_value, 1): the
\* value stored, which is the value returned
SyncSubAndFetch(v) == v - 1
SyncAddAndFetch(v) == v + 1

\* mutant of Won: any value that is not positive takes the lock
WonBelowOne(v) == v <= 0

\* the test of Acquire and TryAcquire on the decremented value: == 0
Won(v) == v = 0

\* FastLock::Acquire(), one turn of the loop up to the test: _value is
\* decremented; on zero the loop ends, else the value is to be put back
FlAcquireTry(t) ==
    /\ ~aborted
    /\ flpc[t] \in {"out", "acq_yield"}
    /\ value_' = SyncSubAndFetch(value_)
    /\ flpc' = [flpc EXCEPT ![t] = IF Won(value_') THEN "acq_won" ELSE "acq_failed"]
    /\ UNCHANGED <<owner_, flret, aborted, flFrame>>

\* FastLock::Acquire(), body of the loop: the decrement is undone and the
\* thread yields
FlAcquireRestore(t) ==
    /\ ~aborted
    /\ flpc[t] = "acq_failed"
    /\ value_' = SyncAddAndFetch(value_)
    /\ flpc' = [flpc EXCEPT ![t] = "acq_yield"]
    /\ UNCHANGED <<owner_, flret, aborted, flFrame>>

\* FastLock::Acquire() and TryAcquire(), after the lock is taken:
\* _owner = pthread_self()
FlSetOwner(t) ==
    /\ ~aborted
    /\ flpc[t] \in {"acq_won", "try_won"}
    /\ owner_' = t
    /\ flret' = [flret EXCEPT ![t] = IF flpc[t] = "try_won" THEN "true" ELSE @]
    /\ flpc' = [flpc EXCEPT ![t] = "held"]
    /\ UNCHANGED <<value_, aborted, flFrame>>

\* FastLock::TryAcquire(), the decrement and its test
FlTryAcquire(t) ==
    /\ ~aborted
    /\ flpc[t] = "out"
    /\ value_' = SyncSubAndFetch(value_)
    /\ flpc' = [flpc EXCEPT ![t] = IF Won(value_') THEN "try_won" ELSE "try_failed"]
    /\ UNCHANGED <<owner_, flret, aborted, flFrame>>

\* FastLock::TryAcquire(), if (!wasLocked): the decrement is undone and the
\* call returns false
FlTryRestore(t) ==
    /\ ~aborted
    /\ flpc[t] = "try_failed"
    /\ value_' = SyncAddAndFetch(value_)
    /\ flret' = [flret EXCEPT ![t] = "false"]
    /\ flpc' = [flpc EXCEPT ![t] = "out"]
    /\ UNCHANGED <<owner_, aborted, flFrame>>

\* FastLock::Release() by the thread that holds the lock, up to the
\* increment: assert(_owner is the caller), which ends the program when it
\* fails, then _value is incremented
FlRelease(t) ==
    /\ ~aborted
    /\ flpc[t] = "held"
    /\ IF owner_ = t
       THEN /\ value_' = SyncAddAndFetch(value_)
            /\ flpc' = [flpc EXCEPT ![t] = "rel_owner"]
            /\ UNCHANGED aborted
       ELSE /\ aborted' = TRUE
            /\ UNCHANGED <<value_, flpc>>
    /\ UNCHANGED <<owner_, flret, flFrame>>

\* FastLock::Release(), last statement: _owner = 0, written after the lock
\* was given up
FlClearOwner(t) ==
    /\ ~aborted
    /\ flpc[t] = "rel_owner"
    /\ owner_' = 0
    /\ flpc' = [flpc EXCEPT ![t] = "out"]
    /\ UNCHANGED <<value_, flret, aborted, flFrame>>

(* --------------------------- specifications ----------------------------- *)

\* what every constructed semaphore and thread starts with
InitCommon ==
    /\ entry_count = 0
    /\ waiters = <<>>
    /\ lock = 0
    /\ mstate = [t \in AllThreads |-> "IDLE"]
    /\ intr = [t \in AllThreads |-> FALSE]
    /\ mlock = [t \in AllThreads |-> 0]
    /\ pc = [t \in AllThreads |-> "idle"]
    /\ op = [t \in AllThreads |-> "none"]
    /\ tmo = [t \in AllThreads |-> 0]
    /\ wres = [t \in AllThreads |-> "IDLE"]
    /\ ret = [t \in AllThreads |-> "none"]
    /\ iter = 0
    /\ impl = 0
    /\ count0 = count
    /\ nAcq = 0
    /\ nRel = 0
    /\ nOps = 0
    /\ nIntr = 0
    /\ events = <<>>
    /\ skipped = {}
    /\ anySkip = FALSE
    /\ queue_ = <<>>
    /\ canceled_ = FALSE
    /\ qlock = 0
    /\ cond = [not_full |-> <<>>, not_empty |-> <<>>, is_empty |-> <<>>]
    /\ item = [t \in AllThreads |-> 0]
    /\ added = <<>>
    /\ removed = <<>>
    /\ active_writers_ = 0
    /\ active_readers_ = 0
    /\ waiting_readers_ = 0
    /\ waiting_writers_ = 0
    /\ rwlock = 0
    /\ rwcond = [cond_read_ |-> <<>>, cond_write_ |-> <<>>]
    /\ result = [t \in AllThreads |-> FALSE]
    /\ wake = [t \in AllThreads |-> "none"]
    /\ held = [t \in AllThreads |-> "none"]
    /\ readers_ = 0
    /\ mtx = 0
    /\ mtxq = <<>>
    /\ fcond = <<>>
    /\ fheld = [t \in AllThreads |-> "none"]
    /\ stamp = [t \in AllThreads |-> 0]
    /\ hstate = [h \in 1 .. MaxHandles |-> "none"]
    /\ hcount = [h \in 1 .. MaxHandles |-> 0]
    /\ hsrc = [h \in 1 .. MaxHandles |-> 0]
    /\ hcur = [t \in AllThreads |-> 0]
    /\ value = 0
    /\ alive = FALSE
    /\ deletes = 0
    /\ asserted = FALSE
    /\ dangling = FALSE
    /\ Scope1 = "none"
    /\ Scope2 = "none"
    /\ guard = "none"
    /\ holds = 0
    /\ applied = {}
    /\ calls = <<>>
    /\ sop = "none"
    /\ sret = "none"
    /\ holds0 = 0
    /\ nScopeOps = 0
    /\ value_ = 1
    /\ owner_ = 0
    /\ flpc = [t \in AllThreads |-> "out"]
    /\ flret = [t \in AllThreads |-> "none"]
    /\ aborted = FALSE

\* Semaphore::Semaphore(count, maxCount): FifoSemaphoreImpl(count, maxCount, true)
Init ==
    /\ max_count \in 1 .. MaxCount
    /\ count \in 0 .. max_count
    /\ checked = TRUE
    /\ policy = "fifo"
    /\ qkind = "none"
    /\ capacity_ = 0
    /\ InitCommon

\* the worker threads call Acquire, TryAcquire and Release in any order and
\* may be interrupted at any time
Next ==
    \/ \E t \in Threads : nOps < MaxOps /\ AcquireEnter(t) /\ UNCHANGED <<ordVars, qVars, rwVars, extVars>>
    \/ \E t \in Threads : AcquireResume(t) /\ UNCHANGED <<ordVars, qVars, rwVars, extVars>>
    \/ \E t \in Threads : \E timeout \in Timeouts :
          nOps < MaxOps /\ TryAcquireEnter(t, timeout) /\ UNCHANGED <<ordVars, qVars, rwVars, extVars>>
    \/ \E t \in Threads : TryAcquireResume(t) /\ UNCHANGED <<ordVars, qVars, rwVars, extVars>>
    \/ \E t \in Threads : nOps < MaxOps /\ ReleaseEnter(t) /\ UNCHANGED <<ordVars, qVars, rwVars, extVars>>
    \/ \E t \in Threads : ReleaseStep(t) /\ UNCHANGED <<ordVars, qVars, rwVars, extVars>>
    \/ \E t \in Threads : ReleaseNotify(t) /\ UNCHANGED <<ordVars, qVars, rwVars, extVars>>
    \/ \E t \in Threads : ReleaseWalkEnd(t) /\ UNCHANGED <<ordVars, qVars, rwVars, extVars>>
    \/ \E t \in Threads : ReleaseRetry(t) /\ UNCHANGED <<ordVars, qVars, rwVars, extVars>>
    \/ \E t \in Threads : MonitorWaitBegin(t) /\ UNCHANGED <<ordVars, qVars, rwVars, extVars>>
    \/ \E t \in Threads : MonitorWaitEnd(t) /\ UNCHANGED <<ordVars, qVars, rwVars, extVars>>
    \/ \E t \in Threads : MonitorTimeout(t) /\ UNCHANGED <<ordVars, qVars, rwVars, extVars>>
    \/ \E t \in Threads : Interrupt(t) /\ UNCHANGED <<ordVars, qVars, rwVars, extVars>>

Spec == Init /\ [][Next]_vars

\* SemaphoreImpl(count, max_count, checked) with any arguments: the
\* constructor stores them as they are, count may exceed max_count
InitAnyCount ==
    /\ max_count \in 1 .. MaxCount
    /\ count \in 0 .. MaxCount + 1
    /\ checked = TRUE
    /\ policy = "fifo"
    /\ qkind = "none"
    /\ capacity_ = 0
    /\ InitCommon

SpecAnyCount == InitAnyCount /\ [][Next]_vars

\* the semaphore's threads, interrupted repeatedly: Acquire, TryAcquire and
\* Release as in Next, with up to MaxInterrupts calls of Interrupt()
NextIntr ==
    \/ \E t \in Threads : nOps < MaxIntrOps /\ AcquireEnter(t) /\ UNCHANGED <<ordVars, qVars, rwVars, extVars>>
    \/ \E t \in Threads : AcquireResume(t) /\ UNCHANGED <<ordVars, qVars, rwVars, extVars>>
    \/ \E t \in Threads : \E timeout \in Timeouts :
          nOps < MaxIntrOps /\ TryAcquireEnter(t, timeout) /\ UNCHANGED <<ordVars, qVars, rwVars, extVars>>
    \/ \E t \in Threads : TryAcquireResume(t) /\ UNCHANGED <<ordVars, qVars, rwVars, extVars>>
    \/ \E t \in Threads : nOps < MaxIntrOps /\ ReleaseEnter(t) /\ UNCHANGED <<ordVars, qVars, rwVars, extVars>>
    \/ \E t \in Threads : ReleaseStep(t) /\ UNCHANGED <<ordVars, qVars, rwVars, extVars>>
    \/ \E t \in Threads : ReleaseNotify(t) /\ UNCHANGED <<ordVars, qVars, rwVars, extVars>>
    \/ \E t \in Threads : ReleaseWalkEnd(t) /\ UNCHANGED <<ordVars, qVars, rwVars, extVars>>
    \/ \E t \in Threads : ReleaseRetry(t) /\ UNCHANGED <<ordVars, qVars, rwVars, extVars>>
    \/ \E t \in Threads : MonitorWaitBegin(t) /\ UNCHANGED <<ordVars, qVars, rwVars, extVars>>
    \/ \E t \in Threads : MonitorWaitEnd(t) /\ UNCHANGED <<ordVars, qVars, rwVars, extVars>>
    \/ \E t \in Threads : MonitorTimeout(t) /\ UNCHANGED <<ordVars, qVars, rwVars, extVars>>
    \/ \E t \in Threads :
          nIntr < MaxInterrupts /\ RaiseInterrupt(t) /\ UNCHANGED <<ordVars, qVars, rwVars, extVars>>

SpecIntr == Init /\ [][NextIntr]_vars

(* ---- behaviours without interrupt and timeout, with the event log ------ *)

\* an unchecked semaphore with count 0 over either waiter list
InitOrder ==
    /\ max_count = MaxCount
    /\ count = 0
    /\ checked = FALSE
    /\ policy \in {"fifo", "priority"}
    /\ qkind = "none"
    /\ capacity_ = 0
    /\ InitCommon

\* the log gains an entry when the step queued t / woke the candidate
LogEnqueue(t) ==
    /\ events' = IF pc'[t] = "pre_wait" THEN Append(events, <<"enq", t>>) ELSE events
    /\ UNCHANGED <<skipped, anySkip>>

\* a walk starts at begin(): no candidate has been passed over yet
LogWalkStart ==
    /\ skipped' = {}
    /\ UNCHANGED <<events, anySkip>>

\* the walk's TryAcquire failed on a waiter whose Monitor is held
LogStep ==
    /\ skipped' = IF ~MonitorFree(waiters[iter]) THEN skipped \cup {waiters[iter]}
                                                ELSE skipped
    /\ anySkip' = (anySkip \/ ~MonitorFree(waiters[iter]))
    /\ UNCHANGED events

LogNotify ==
    /\ events' = IF NotifyWakes(impl) THEN Append(events, <<"wake", impl>>) ELSE events
    /\ UNCHANGED <<skipped, anySkip>>

NextOrder ==
    \/ \E t \in AllThreads : nOps < MaxOrdOps /\ AcquireEnter(t) /\ LogEnqueue(t) /\ UNCHANGED <<qVars, rwVars, extVars>>
    \/ \E t \in AllThreads : AcquireResume(t) /\ UNCHANGED <<ordVars, qVars, rwVars, extVars>>
    \/ \E t \in AllThreads : nOps < MaxOrdOps /\ ReleaseEnter(t) /\ LogWalkStart /\ UNCHANGED <<qVars, rwVars, extVars>>
    \/ \E t \in AllThreads : ReleaseStep(t) /\ LogStep /\ UNCHANGED <<qVars, rwVars, extVars>>
    \/ \E t \in AllThreads : ReleaseNotify(t) /\ LogNotify /\ UNCHANGED <<qVars, rwVars, extVars>>
    \/ \E t \in AllThreads : ReleaseWalkEnd(t) /\ UNCHANGED <<ordVars, qVars, rwVars, extVars>>
    \/ \E t \in AllThreads : ReleaseRetry(t) /\ LogWalkStart /\ UNCHANGED <<qVars, rwVars, extVars>>
    \/ \E t \in AllThreads : MonitorWaitBegin(t) /\ UNCHANGED <<ordVars, qVars, rwVars, extVars>>
    \/ \E t \in AllThreads : MonitorWaitEnd(t) /\ UNCHANGED <<ordVars, qVars, rwVars, extVars>>

SpecOrder == InitOrder /\ [][NextOrder]_vars

(* ------------------------- the queues in use ---------------------------- *)

\* BlockingQueue(), BoundedQueue(capacity) or MonitoredQueue(), just built
InitQueue ==
    /\ qkind \in {"blocking", "bounded", "monitored"}
    /\ capacity_ \in IF qkind = "bounded" THEN 0 .. MaxCapacity ELSE {0}
    /\ count = 0
    /\ max_count = MaxCount
    /\ checked = FALSE
    /\ policy = "fifo"
    /\ InitCommon

\* the worker threads call Add, Next, Cancel and Empty, timed or not, in any
\* order and may be interrupted at any time; the k-th call of a behaviour
\* that is an Add adds the value k
NextQueue ==
    \/ \E t \in Threads : \E o \in QueueOps : \E timeout \in QTimeouts :
          \E v \in Items :
             nOps < MaxQOps /\ v = nOps + 1 /\ QCall(t, o, timeout, v)
    \/ \E t \in Threads : CondLeave(t)
    \/ \E t \in Threads : QResume(t)
    \/ \E t \in Threads : BoundedQueueAdd(t)
    \/ \E t \in Threads : BoundedQueueNext(t)
    \/ \E t \in Threads : BoundedQueueCancel(t)
    \/ \E t \in Threads : BoundedQueueEmpty(t)
    \/ \E t \in Threads : BlockingQueueAdd(t)
    \/ \E t \in Threads : BlockingQueueNext(t)
    \/ \E t \in Threads : BlockingQueueCancel(t)
    \/ \E t \in Threads : MonitoredQueueAdd(t)
    \/ \E t \in Threads : MonitoredQueueNext(t)
    \/ \E t \in Threads : MonitoredQueueCancel(t)
    \/ \E t \in Threads : MonitoredQueueEmpty(t)
    \/ \E t \in Threads : MonitorWaitBegin(t) /\ UNCHANGED <<ordVars, qVars, rwVars, extVars>>
    \/ \E t \in Threads : MonitorWaitEnd(t) /\ UNCHANGED <<ordVars, qVars, rwVars, extVars>>
    \/ \E t \in Threads : MonitorTimeout(t) /\ UNCHANGED <<ordVars, qVars, rwVars, extVars>>
    \/ \E t \in Threads : Interrupt(t) /\ UNCHANGED <<ordVars, qVars, rwVars, extVars>>

SpecQueue == InitQueue /\ [][NextQueue]_vars

(* ------ the queues without interrupt and timeout, fairly scheduled ------ *)

\* the untimed operations
UntimedOps == {o \in QueueOps : ~Timed(o)}

\* every step a thread takes by itself once it has called a queue operation
QueueProgress(t) ==
    \/ CondLeave(t)
    \/ QResume(t)
    \/ BoundedQueueAdd(t)
    \/ BoundedQueueNext(t)
    \/ BoundedQueueCancel(t)
    \/ BoundedQueueEmpty(t)
    \/ BlockingQueueAdd(t)
    \/ BlockingQueueNext(t)
    \/ BlockingQueueCancel(t)
    \/ MonitoredQueueAdd(t)
    \/ MonitoredQueueNext(t)
    \/ MonitoredQueueCancel(t)
    \/ MonitoredQueueEmpty(t)
    \/ MonitorWaitBegin(t) /\ UNCHANGED <<ordVars, qVars, rwVars, extVars>>
    \/ MonitorWaitEnd(t) /\ UNCHANGED <<ordVars, qVars, rwVars, extVars>>

\* the worker threads call Add, Next, Cancel and Empty in any order
NextQueueLive ==
    \/ \E t \in Threads : \E o \in UntimedOps : \E v \in Items :
          nOps < MaxQOps /\ v = nOps + 1 /\ QCall(t, o, 0, v)
    \/ \E t \in Threads : QueueProgress(t)

\* a thread that can take a step of its own is scheduled in the end (the
\* threads are preemptively scheduled OS threads)
SpecQueueLive ==
    /\ InitQueue
    /\ [][NextQueueLive]_vars
    /\ \A t \in Threads : WF_vars(QueueProgress(t))

(* ---------- one producer and the consumers of a BoundedQueue ------------- *)

\* the thread that adds, and the threads that take
Producer == 1
Consumers == Threads \ {Producer}

\* BoundedQueue<T, LockType>(MaxCapacity)
InitProdCons ==
    /\ qkind = "bounded"
    /\ capacity_ = MaxCapacity
    /\ count = 0
    /\ max_count = MaxCount
    /\ checked = FALSE
    /\ policy = "fifo"
    /\ InitCommon

\* every step a thread takes by itself inside Add or Next
ProdConsProgress(t) ==
    \/ CondLeave(t)
    \/ QResume(t)
    \/ BoundedQueueAdd(t)
    \/ BoundedQueueNext(t)
    \/ MonitorWaitBegin(t) /\ UNCHANGED <<ordVars, qVars, rwVars, extVars>>
    \/ MonitorWaitEnd(t) /\ UNCHANGED <<ordVars, qVars, rwVars, extVars>>

\* the producer calls Add(item) and Add(item, 0) with the values 1, 2, 3, ...
\* (a value that was refused is offered again), the consumers call Next()
NextProdCons ==
    \/ \E o \in {"Add", "AddT"} :
          nOps < MaxPCOps /\ QCall(Producer, o, 0, Len(added) + 1)
    \/ \E t \in Consumers : nOps < MaxPCOps /\ QCall(t, "Next", 0, 0)
    \/ \E t \in Threads : ProdConsProgress(t)

SpecProdCons ==
    /\ InitProdCons
    /\ [][NextProdCons]_vars
    /\ \A t \in Threads : WF_vars(ProdConsProgress(t))

(* ------------------------ the read-write lock --------------------------- *)

\* BiasedReadWriteLock()
InitRW ==
    /\ qkind = "none"
    /\ capacity_ = 0
    /\ count = 0
    /\ max_count = MaxCount
    /\ checked = FALSE
    /\ policy = "fifo"
    /\ InitCommon

\* the worker threads acquire and try to acquire the read and the write
\* lock, release what they were given, and may be interrupted at any time
NextRW ==
    \/ \E t \in Threads : \E o \in RWAcquireOps : \E timeout \in Timeouts :
          nOps < MaxRWOps /\ RWBefore(t, o, timeout)
    \/ \E t \in Threads : RWLoop(t)
    \/ \E t \in Threads : RWCondLeave(t)
    \/ \E t \in Threads : RWResume(t)
    \/ \E t \in Threads : \E o \in RWReleaseOps : nOps < MaxRWOps /\ RWAfter(t, o)
    \/ \E t \in Threads : RWSignal(t)
    \/ \E t \in Threads : MonitorWaitBegin(t) /\ UNCHANGED <<ordVars, qVars, rwVars, extVars>>
    \/ \E t \in Threads : MonitorWaitEnd(t) /\ UNCHANGED <<ordVars, qVars, rwVars, extVars>>
    \/ \E t \in Threads : MonitorTimeout(t) /\ UNCHANGED <<ordVars, qVars, rwVars, extVars>>
    \/ \E t \in Threads : Interrupt(t) /\ UNCHANGED <<ordVars, qVars, rwVars, extVars>>

SpecRW == InitRW /\ [][NextRW]_vars

(* ----- the read-write lock, each thread once in and out, fairly run ------ *)

\* every step a thread takes by itself once it has called Acquire(), the
\* Release() of what it was given included
RWLiveProgress(t) ==
    \/ RWLoop(t)
    \/ RWCondLeave(t)
    \/ RWResume(t)
    \/ \E o \in RWReleaseOps : RWAfter(t, o)
    \/ RWSignal(t)
    \/ MonitorWaitBegin(t) /\ UNCHANGED <<ordVars, qVars, rwVars, extVars>>
    \/ MonitorWaitEnd(t) /\ UNCHANGED <<ordVars, qVars, rwVars, extVars>>

\* any of the threads calls Acquire() of the read or of the write lock, once,
\* and releases it afterwards; nobody is interrupted
NextRWLive ==
    \/ \E t \in Threads : \E o \in {"RAcquire", "WAcquire"} :
          op[t] = "none" /\ RWBefore(t, o, 0)
    \/ \E t \in Threads : RWLiveProgress(t)

\* a thread that can take a step of its own is scheduled in the end
SpecRWLive ==
    /\ InitRW
    /\ [][NextRWLive]_vars
    /\ \A t \in Threads : WF_vars(RWLiveProgress(t))

(* --------------------- the fair read-write lock ------------------------- *)

\* FairReadWriteLock()
InitFair ==
    /\ qkind = "none"
    /\ capacity_ = 0
    /\ count = 0
    /\ max_count = MaxCount
    /\ checked = FALSE
    /\ policy = "fifo"
    /\ InitCommon

\* a thread is inside Condition.Wait on cond_
InFairWait(t) == op[t] \in FairOps /\ pc[t] \in {"pre_wait", "parked"}

\* the worker threads acquire and try to acquire the read and the write
\* lock and release what they were given; a writer waiting on cond_ may be
\* interrupted
NextFair ==
    \/ \E t \in Threads : \E o \in FairOps : \E timeout \in Timeouts :
          nOps < MaxFairOps /\ FairCall(t, o, timeout)
    \/ \E t \in Threads : FairMutexGrant(t)
    \/ \E t \in Threads : FairMutexTimeout(t)
    \/ \E t \in Threads : FairReadEnter(t)
    \/ \E t \in Threads : FairReadRelease(t)
    \/ \E t \in Threads : FairWriteLoop(t)
    \/ \E t \in Threads : FairCondLeave(t)
    \/ \E t \in Threads : FairRelock(t)
    \/ \E t \in Threads : MonitorWaitBegin(t) /\ UNCHANGED <<ordVars, qVars, rwVars, extVars>>
    \/ \E t \in Threads : MonitorWaitEnd(t) /\ UNCHANGED <<ordVars, qVars, rwVars, extVars>>
    \/ \E t \in Threads : MonitorTimeout(t) /\ UNCHANGED <<ordVars, qVars, rwVars, extVars>>
    \/ \E t \in Threads :
          InFairWait(t) /\ Interrupt(t) /\ UNCHANGED <<ordVars, qVars, rwVars, extVars>>

SpecFair == InitFair /\ [][NextFair]_vars

\* no primitive under test but the CountedPtr
InitPtr ==
    /\ qkind = "none"
    /\ capacity_ = 0
    /\ count = 0
    /\ max_count = MaxCount
    /\ checked = FALSE
    /\ policy = "fifo"
    /\ InitCommon

\* the worker threads wrap one object, copy handles that are alive, create
\* null handles and destroy handles, in any interleaving
NextPtr ==
    \/ \E t \in Threads : \E h \in Handles : nOps < MaxPtrOps /\ PtrWrap(t, h)
    \/ \E t \in Threads : \E h \in Handles : nOps < MaxPtrOps /\ PtrDefault(t, h)
    \/ \E t \in Threads : \E src, dst \in Handles :
          nOps < MaxPtrOps /\ PtrCopyInit(t, src, dst)
    \/ \E t \in Threads : PtrCopyIncr(t)
    \/ \E t \in Threads : \E h \in Handles : nOps < MaxPtrOps /\ PtrDestroy(t, h)
    \/ \E t \in Threads : PtrDelete(t)

SpecPtr == InitPtr /\ [][NextPtr]_vars

\* no primitive under test but a guard with a compound policy
InitScope ==
    /\ qkind = "none"
    /\ capacity_ = 0
    /\ count = 0
    /\ max_count = MaxCount
    /\ checked = FALSE
    /\ policy = "fifo"
    /\ InitCommon

\* guards are constructed, with and without a timeout, and destroyed, one
\* at a time; the results of the TryAcquire calls are the environment's
NextScope ==
    \/ \E s1, s2 \in Policies : \E ok1, ok2 \in BOOLEAN :
          nScopeOps < MaxScopeOps /\ CreateScope(s1, s2, ok1, ok2)
    \/ \E s1, s2 \in Policies : \E ok1, ok2 \in BOOLEAN :
          nScopeOps < MaxScopeOps /\ CreateScopeTimed(s1, s2, ok1, ok2)
    \/ nScopeOps < MaxScopeOps /\ DestroyScope

SpecScope == InitScope /\ [][NextScope]_vars

\* no primitive under test but the FastLock
InitFastLock ==
    /\ qkind = "none"
    /\ capacity_ = 0
    /\ count = 0
    /\ max_count = MaxCount
    /\ checked = FALSE
    /\ policy = "fifo"
    /\ InitCommon

\* the worker threads call Acquire and TryAcquire, and Release when they hold
\* the lock, in any interleaving of their atomic steps
NextFastLock ==
    \/ \E t \in Threads : FlAcquireTry(t)
    \/ \E t \in Threads : FlAcquireRestore(t)
    \/ \E t \in Threads : FlSetOwner(t)
    \/ \E t \in Threads : FlTryAcquire(t)
    \/ \E t \in Threads : FlTryRestore(t)
    \/ \E t \in Threads : FlRelease(t)
    \/ \E t \in Threads : FlClearOwner(t)

SpecFastLock == InitFastLock /\ [][NextFastLock]_vars

TypeOK ==
    /\ count \in Int
    /\ entry_count \in Int
    /\ lock \in 0 .. NThreads + 1
    /\ \A t \in AllThreads : mstate[t] \in MonitorStates

(* ------------------------------- claims --------------------------------- *)

IsPrefix(s, r) == Len(s) <= Len(r) /\ SubSeq(r, 1, Len(s)) = s

\* threads of the log entries of one kind, in log order
RECURSIVE Logged(_, _)
Logged(kind, log) ==
    IF log = <<>> THEN <<>>
    ELSE IF Head(log)[1] = kind THEN <<Head(log)[2]>> \o Logged(kind, Tail(log))
    ELSE Logged(kind, Tail(log))

InSlowPath(t) == pc[t] \in {"pre_wait", "parked", "post_wait"}
AllIdle == \A t \in AllThreads : pc[t] = "idle"

\* C1: a checked semaphore constructed with 0 <= count <= max_count keeps
\* 0 <= count <= max_count in every reachable state, whatever the
\* interleaving of Acquire, TryAcquire and Release, interrupts and timeouts.
C1_CountInRange == checked => (0 <= count /\ count <= max_count)

\* a Release was refused at the maximum after an interrupted and a timed-out wait
C1_Witness ==
    /\ count = max_count
    /\ \E t \in Threads : ret[t] = "INVALID_OP"
    /\ \E t \in Threads : wres[t] = "TIMEDOUT"
    /\ \E t \in Threads : wres[t] = "INTERRUPTED"

\* C2: no wakeup is lost: no state is reached in which count > 0, no Release
\* is in progress, nothing else is in transit, and a thread is parked in
\* Acquire with nothing pending that could ever wake it.
ParkedForGood(t) ==
    /\ pc[t] = "parked"
    /\ op[t] = "Acquire"
    /\ mstate[t] = "IDLE"
    /\ \A u \in AllThreads \ {t} : pc[u] = "idle"

C2_NoLostWakeup == ~(count > 0 /\ lock = 0 /\ \E t \in Threads : ParkedForGood(t))

\* C3: with no Release, exactly count0 Acquire calls are admitted: they take
\* the count without queueing, and a caller is queued only once the count is
\* used up and stays queued (never woken SIGNALED) while no Release occurs.
C3_AdmitsExactlyK ==
    nRel = 0 =>
        /\ nAcq <= count0
        /\ count = count0 - nAcq
        /\ \A t \in Threads : InSlowPath(t) => (count = 0 /\ wres[t] # "SIGNALED")
        /\ (count > 0 => entry_count = 0)

\* two callers took the two counts, a third is parked, no Release so far
C3_Witness ==
    /\ nRel = 0
    /\ count0 = 2
    /\ nAcq = 2
    /\ \E t \in Threads : pc[t] = "parked" /\ op[t] = "Acquire"

\* the state of scenario 1 once A has returned: Semaphore(0, 1, checked), A's
\* Acquire blocked and was woken by B's Release, nobody else has done anything
C4_AfterFirstRound(a, b) ==
    /\ a # b
    /\ max_count = 1 /\ count0 = 0 /\ checked
    /\ nOps = 2 /\ nRel = 1 /\ nAcq = 1
    /\ op[a] = "Acquire" /\ wres[a] = "SIGNALED" /\ ret[a] = "ok"
    /\ op[b] = "Release" /\ ret[b] = "ok"
    /\ AllIdle

\* C4 as stated: in that state Count() == 0 and a second Release fails with
\* INVALID_OP.
C4_SecondReleaseFails ==
    [][\A a, b \in Threads :
          (C4_AfterFirstRound(a, b) /\ ReleaseEnter(b))
              => (Count = 0 /\ ret'[b] = "INVALID_OP")]_vars

\* C4 amended: in that state Count() == 0 and a second Release succeeds and
\* raises count to 1 (0 is below max_count); a Release of a checked semaphore
\* fails with INVALID_OP exactly when count == max_count on entry, and then
\* leaves count as it is.
C4_SecondReleaseSucceeds ==
    [][/\ \A a, b \in Threads :
             (C4_AfterFirstRound(a, b) /\ ReleaseEnter(b))
                 => (Count = 0 /\ count' = 1 /\ ret'[b] # "INVALID_OP")
       /\ \A t \in Threads :
             ReleaseEnter(t) =>
                 /\ (ret'[t] = "INVALID_OP") <=> (checked /\ count = max_count)
                 /\ (ret'[t] = "INVALID_OP") => count' = count]_vars

\* after the first round a second Release went through and a third was refused
C4_Witness ==
    /\ max_count = 1 /\ count0 = 0
    /\ nRel = 2 /\ nAcq = 1 /\ count = 1
    /\ \E a \in Threads : op[a] = "Acquire" /\ wres[a] = "SIGNALED" /\ ret[a] = "ok"
    /\ \E b \in Threads : op[b] = "Release" /\ ret[b] = "INVALID_OP"

\* C5: a thread blocked in Acquire that is interrupted has its wait return
\* INTERRUPTED and its Acquire fail with INTERRUPTED, no step of that Acquire
\* changing count or leaving the thread in waiters; a Release on the semaphore
\* at count 0 then succeeds and raises count to 1.
C5_InterruptedAcquire ==
    [][\A t \in Threads :
          /\ (pc[t] = "parked" /\ op[t] = "Acquire" /\ mstate[t] = "IDLE"
                  /\ ~intr[t] /\ intr'[t])
                => mstate'[t] = "INTERRUPTED"
          /\ (pc[t] = "parked" /\ op[t] = "Acquire" /\ mstate[t] = "INTERRUPTED")
                => \/ pc'[t] = "parked" /\ mstate'[t] = "INTERRUPTED"
                   \/ pc'[t] = "post_wait" /\ wres'[t] = "INTERRUPTED"
          /\ (pc[t] = "post_wait" /\ op[t] = "Acquire" /\ wres[t] = "INTERRUPTED")
                => \/ pc'[t] = "post_wait" /\ wres'[t] = "INTERRUPTED"
                   \/ /\ pc'[t] = "idle"
                      /\ ret'[t] = "INTERRUPTED"
                      /\ count' = count
                      /\ \A j \in 1 .. Len(waiters') : waiters'[j] # t
          /\ (AcquireEnter(t) /\ pc'[t] = "pre_wait") => count' = count
          /\ (ReleaseEnter(t) /\ count = 0)
                => (count' = 1 /\ ret'[t] # "INVALID_OP")]_vars

\* an Acquire on the empty semaphore was interrupted, then a Release ran
C5_Witness ==
    /\ count0 = 0 /\ count = 1 /\ nRel = 1 /\ nAcq = 0
    /\ \E t \in Threads : op[t] = "Acquire" /\ ret[t] = "INTERRUPTED"
    /\ \E t \in Threads : op[t] = "Release" /\ ret[t] = "ok"

\* index of the last log entry that queued t (0 if none)
LastEnqueue(t) ==
    LET S == {i \in 1 .. Len(events) : events[i] = <<"enq", t>>}
    IN  IF S = {} THEN 0 ELSE CHOOSE i \in S : \A k \in S : k <= i

\* C6 as stated: with the FIFO list and no interrupt or timeout, waiters are
\* woken in the order in which they were queued.
C6_WokenInArrivalOrder ==
    policy = "fifo" => IsPrefix(Logged("wake", events), Logged("enq", events))

\* C6 amended: the FIFO list holds the waiters in arrival order and a Release
\* wakes the first waiter whose Monitor it can take: a waiter is woken ahead
\* of an earlier arrival only after the walk found that earlier waiter's
\* Monitor busy (the waiter has queued but not parked yet); in behaviours
\* where no walk met a busy Monitor, waiters are woken in arrival order.
C6_ArrivalOrderUnlessBusy ==
    policy = "fifo" =>
        /\ \A j, k \in 1 .. Len(waiters) :
              j < k => LastEnqueue(waiters[j]) < LastEnqueue(waiters[k])
        /\ \A r \in AllThreads :
              pc[r] = "r_notify" => \A j \in 1 .. iter - 1 : waiters[j] \in skipped
        /\ ~anySkip => IsPrefix(Logged("wake", events), Logged("enq", events))

\* a Release holds the second waiter's Monitor after skipping the busy first
C6_Witness ==
    /\ policy = "fifo"
    /\ \E r \in AllThreads : pc[r] = "r_notify"
    /\ iter = 2
    /\ waiters[1] \in skipped
    /\ LastEnqueue(waiters[1]) < LastEnqueue(impl)

\* C7: with the priority list the waiters are queued highest priority first,
\* insertion order among equals, and a walk passes over a queued waiter only
\* if its Monitor was busy; so with T1 (priority 1), T2 (5), T3 (3) parked in
\* that arrival order on Semaphore(0, unchecked), the Releases that follow
\* wake T2, then T3, then T1.
C7_PriorityOrder ==
    policy = "priority" =>
        /\ \A j, k \in 1 .. Len(waiters) :
              j < k =>
                  \/ Priority(waiters[j]) > Priority(waiters[k])
                  \/ /\ Priority(waiters[j]) = Priority(waiters[k])
                     /\ LastEnqueue(waiters[j]) < LastEnqueue(waiters[k])
        /\ \A r \in AllThreads :
              pc[r] = "r_notify" => \A j \in 1 .. iter - 1 : waiters[j] \in skipped
        /\ (/\ Logged("enq", events) = <<1, 2, 3>>
            /\ SubSeq(events, 1, 3) = <<<<"enq", 1>>, <<"enq", 2>>, <<"enq", 3>>>>
            /\ ~anySkip)
              => IsPrefix(Logged("wake", events), <<2, 3, 1>>)

\* the three waiters of the scenario have been woken, in the order T2, T3, T1
C7_Witness ==
    /\ policy = "priority"
    /\ ~anySkip
    /\ events = <<<<"enq", 1>>, <<"enq", 2>>, <<"enq", 3>>,
                  <<"wake", 2>>, <<"wake", 3>>, <<"wake", 1>>>>

\* C8: a TryAcquire whose wait ended TIMEDOUT returns false, raising no error
\* and leaving count as it is; TryAcquire(0) never parks or takes the Monitor,
\* returns true iff the fast path applied (taking one count) and false
\* otherwise, and leaves waiters and entry_count as they were.
C8_TryAcquire ==
    [][\A t \in Threads :
          /\ (TryAcquireResume(t) /\ wres[t] = "TIMEDOUT")
                => (ret'[t] = "false" /\ count' = count)
          /\ TryAcquireEnter(t, 0)
                => /\ pc'[t] = "idle"
                   /\ mlock' = mlock
                   /\ ret'[t] = (IF FastPath THEN "ok" ELSE "false")
                   /\ count' = (IF FastPath THEN count - 1 ELSE count)
                   /\ waiters' = waiters
                   /\ entry_count' = entry_count]_vars

\* one TryAcquire(0) was refused while another thread was queued, and a timed
\* TryAcquire came back false after its wait timed out
C8_Witness ==
    \E t, u \in Threads :
        /\ op[t] = "TryAcquire" /\ tmo[t] = 0 /\ ret[t] = "false"
        /\ op[u] = "TryAcquire" /\ tmo[u] > 0 /\ ret[u] = "false"
        /\ wres[u] = "TIMEDOUT"
        /\ waiters # <<>>

\* C9: a BoundedQueue of capacity N holds between 0 and N values in every
\* reachable state, whatever Add, Add(timeout), Next, Next(timeout), Cancel
\* and Empty calls, interrupts and timeouts are interleaved.
C9_SizeWithinCapacity ==
    qkind = "bounded" => (0 <= Size /\ Size <= capacity_)

\* the queue is full again after a producer that was blocked on the full
\* queue was woken by a Next and added its value
C9_Witness ==
    /\ qkind = "bounded"
    /\ Size = capacity_
    /\ removed # <<>>
    /\ \E t \in Threads :
          /\ op[t] \in {"Add", "AddT"}
          /\ wres[t] = "SIGNALED"
          /\ ret[t] = "ok"

\* C10: in all three queues the values popped so far, followed by the values
\* still stored, are exactly the values pushed, in push order (nothing lost,
\* duplicated or reordered), and Size() is the number of successful Adds
\* minus the number of successful Nexts.
C10_InsertionOrder ==
    qkind \in {"blocking", "bounded", "monitored"} =>
        /\ added = removed \o queue_
        /\ IsPrefix(removed, added)
        /\ Size = Len(added) - Len(removed)

\* two different values were added, the first was returned by a Next and the
\* second is still stored
C10_Witness ==
    /\ Len(added) = 2
    /\ added[1] # added[2]
    /\ removed = <<added[1]>>
    /\ queue_ = <<added[2]>>
    /\ \E t \in Threads : op[t] \in {"Next", "NextT"} /\ ret[t] = "ok"

\* thread t takes the step of its operation that runs under the queue lock
BodyStep(t) == pc[t] = "q_body" /\ pc'[t] # "q_body"

\* C11: once set, the canceled flag stays set, so IsCanceled() is true ever
\* after a Cancel() has run; a Cancel() on a canceled queue leaves the flag
\* and the stored values as they are.
C11_CancelPermanent ==
    [][/\ IsCanceled => IsCanceled'
       /\ \A t \in Threads :
             (BodyStep(t) /\ op[t] = "Cancel")
                => /\ IsCanceled'
                   /\ queue_' = queue_
                   /\ pc'[t] = "idle"]_vars

\* a value is stored and Cancel() has returned twice
C11_Witness ==
    /\ canceled_
    /\ queue_ # <<>>
    /\ \E t, u \in Threads :
          /\ t # u
          /\ op[t] = "Cancel" /\ ret[t] = "ok" /\ pc[t] = "idle"
          /\ op[u] = "Cancel" /\ ret[u] = "ok" /\ pc[u] = "idle"

\* C12: an Add or Add(timeout) that runs under the queue lock of a canceled
\* queue fails with CANCELED and leaves the stored values as they are; no
\* value is ever added to a canceled queue.
C12_NoAddAfterCancel ==
    [][/\ canceled_ => added' = added
       /\ \A t \in Threads :
             (BodyStep(t) /\ op[t] \in {"Add", "AddT"} /\ canceled_)
                => /\ ret'[t] = "CANCELED"
                   /\ pc'[t] = "idle"
                   /\ queue_' = queue_]_vars

\* after a Cancel, an Add and an Add(timeout) have both failed with CANCELED
C12_Witness ==
    /\ canceled_
    /\ \E t, u \in Threads :
          /\ op[t] = "Add" /\ ret[t] = "CANCELED"
          /\ op[u] = "AddT" /\ ret[u] = "CANCELED"

ParkedUnnotified(t) == pc[t] = "parked" /\ mstate[t] = "IDLE"

\* no thread is running: each one is outside every operation, or parked
\* with nothing to wake it
Quiescent == \A t \in Threads : pc[t] = "idle" \/ ParkedUnnotified(t)

\* C14: once a BoundedQueue (of capacity 1 or more) is canceled and every
\* running thread has come to rest, no thread is left blocked in Add() or
\* Empty() with nothing having woken it: Cancel() alone releases the
\* producers and the Empty() callers.
C14_CancelWakesProducers ==
    (qkind = "bounded" /\ capacity_ >= 1 /\ canceled_ /\ Quiescent)
        => \A t \in Threads :
              op[t] \in {"Add", "Empty"} => ~ParkedUnnotified(t)

\* C15: a Next() or Next(timeout) that runs under the queue lock of a
\* canceled queue fails with CANCELED and removes nothing, whether or not
\* values are still stored.
C15_NextAfterCancelFails ==
    [][\A t \in Threads :
          (BodyStep(t) /\ op[t] \in {"Next", "NextT"} /\ canceled_)
             => /\ ret'[t] = "CANCELED"
                /\ queue_' = queue_]_vars

\* C16: on a full BoundedQueue that is not canceled, Add(item, 0) changes
\* nothing and returns false; an Add that succeeds appends its value behind
\* the stored ones within the capacity; and a producer inside Add(item) while
\* a slot is free (a Next() has freed it, or it was free at the call) comes
\* to return with its value added.
C16_ZeroTimeoutAndHandOff ==
    /\ [][\A t \in Threads :
            /\ (BodyStep(t) /\ op[t] = "AddT" /\ tmo[t] = 0 /\ IsFull
                  /\ ~canceled_)
                  => /\ queue_' = queue_
                     /\ pc'[t] = "q_relock"
                     /\ wres'[t] = "TIMEDOUT"
            /\ (pc[t] = "q_relock" /\ pc'[t] # "q_relock" /\ op[t] = "AddT"
                  /\ wres[t] = "TIMEDOUT")
                  => /\ queue_' = queue_
                     /\ pc'[t] = "idle"
                     /\ ret'[t] = "false"
            /\ (BodyStep(t) /\ op[t] \in {"Add", "AddT"} /\ ret'[t] = "ok")
                  => /\ queue_' = Append(queue_, item[t])
                     /\ Len(queue_') <= capacity_]_vars
    /\ (op[Producer] = "Add" /\ pc[Producer] # "idle" /\ ~IsFull)
          ~> (pc[Producer] = "idle" /\ ret[Producer] = "ok"
                /\ added # <<>> /\ added[Len(added)] = item[Producer])

\* capacity 2: 1 and 2 were added, Add(3, 0) was refused, Add(3) waited, a
\* Next() returned 1 and the waiting Add(3) completed behind 2
C16_Witness ==
    /\ capacity_ = 2
    /\ added = <<1, 2, 3>>
    /\ removed = <<1>>
    /\ queue_ = <<2, 3>>
    /\ Size = 2
    /\ nOps = 5
    /\ op[Producer] = "Add" /\ wres[Producer] = "SIGNALED"
    /\ ret[Producer] = "ok"
    /\ \A t \in Threads : pc[t] = "idle"
    /\ \E t \in Consumers :
          /\ op[t] = "Next" /\ ret[t] = "ok"
          /\ \A u \in Consumers \ {t} : op[u] = "none"

\* C17: on a BoundedQueue of capacity 0 an Add() and a Next() pair up: once
\* every running thread has come to rest, there are not both a producer
\* blocked in Add() and a consumer blocked in Next() with nothing having
\* woken either.
C17_ZeroCapacityPairs ==
    (qkind = "bounded" /\ capacity_ = 0 /\ ~canceled_ /\ Quiescent)
        => ~ \E p, c \in Threads :
                /\ op[p] = "Add" /\ ParkedUnnotified(p)
                /\ op[c] = "Next" /\ ParkedUnnotified(c)

C19_EmptyTimesOut ==
    [][\A t \in Threads :
          (pc[t] = "q_relock" /\ pc'[t] # "q_relock" /\ op[t] = "EmptyT"
             /\ wres[t] = "TIMEDOUT" /\ queue_ # <<>>)
             => /\ pc'[t] = "idle"
                /\ ret'[t] = "TIMEOUT"]_vars

\* C20: whatever the interleaving of Acquire, TryAcquire and matched Release
\* on the read and the write lock of a BiasedReadWriteLock (interrupts and
\* timeouts included), at most one writer is active, and no reader is active
\* while a writer is.
C20_WriterExcludes ==
    /\ active_writers_ \in {0, 1}
    /\ active_writers_ = 1 => active_readers_ = 0
    /\ active_readers_ >= 0

\* a writer that had to wait for a reader to release is active, and a reader
\* is parked waiting for it
C20_Witness ==
    /\ active_writers_ = 1
    /\ active_readers_ = 0
    /\ waiting_readers_ = 1
    /\ \E t \in Threads :
          /\ op[t] = "WAcquire" /\ wres[t] = "SIGNALED" /\ held[t] = "write"
    /\ \E t \in Threads :
          /\ op[t] \in {"RAcquire", "RTryAcquire"} /\ pc[t] = "parked"

\* C21: in FairReadWriteLock, whenever a thread holds the write lock (its
\* write Acquire or TryAcquire has returned and it has not released), the
\* reader count is 0, no thread holds the read lock and no other thread
\* holds the write lock.
C21_FairWriterExcludes ==
    \A w \in Threads :
        fheld[w] = "write"
           => /\ readers_ = 0
              /\ mtx = w
              /\ \A u \in Threads \ {w} : fheld[u] = "none"

\* a writer that had to wait for a reader to leave holds the write lock,
\* and a reader queues for lock_ behind it
C21_Witness ==
    /\ readers_ = 0
    /\ \E w \in Threads :
          /\ fheld[w] = "write" /\ op[w] = "FWAcquire" /\ wres[w] = "SIGNALED"
    /\ \E r \in Threads :
          /\ op[r] \in {"FRAcquire", "FRTryAcquire"} /\ pc[r] = "m_wait"

\* thread t is inside an Acquire() of the fair read-write lock
InFairAcquire(t) == op[t] \in {"FRAcquire", "FWAcquire"} /\ pc[t] # "idle"

\* thread t holds what its last call, an Acquire(), gave it
HoldsByFairAcquire(t) ==
    /\ op[t] \in {"FRAcquire", "FWAcquire"}
    /\ pc[t] = "idle"
    /\ fheld[t] = FairKind(op[t])

\* C22: FairReadWriteLock serves readers and writers in arrival order: no
\* thread holds the lock it asked for with Acquire() while a thread that
\* called Acquire() for the other lock earlier is still inside its call.
C22_FairArrivalOrder ==
    \A a, b \in Threads :
        (/\ InFairAcquire(a)
         /\ HoldsByFairAcquire(b)
         /\ FairKind(op[a]) # FairKind(op[b]))
           => stamp[b] < stamp[a]

\* C30: no wakeup of a writer of FairReadWriteLock is lost: once the readers
\* have left, every writer that got the write lock has released it, lock_ is
\* free and every running thread has come to rest, no writer is left parked
\* in write Acquire() on cond_ with nothing having woken it.
C30_NoLostWriterWakeup ==
    (/\ readers_ = 0
     /\ mtx = 0 /\ mtxq = <<>>
     /\ Quiescent
     /\ \A t \in Threads : fheld[t] = "none")
        => \A t \in Threads : op[t] = "FWAcquire" => ~ParkedUnnotified(t)

\* thread w is inside write Acquire() of the BiasedReadWriteLock, waiting on
\* cond_write_
WriterWaits(w) == op[w] = "WAcquire" /\ pc[w] \in {"pre_wait", "parked"}

\* thread r is in the loop of a read Acquire / TryAcquire for the first time:
\* it has held lock_ since it arrived
ReaderArrives(r) ==
    /\ pc[r] = "rw_loop"
    /\ op[r] \in {"RAcquire", "RTryAcquire"}
    /\ wres[r] = "IDLE"

C24_FalseMeansNotAcquired ==
    [][\A t \in Threads :
          (/\ op[t] \in {"RTryAcquire", "WTryAcquire"}
           /\ pc[t] = "rw_loop"
           /\ ret'[t] = "false")
             => /\ active_readers_' = active_readers_
                /\ active_writers_' = active_writers_]_vars

\* thread t is inside Acquire or TryAcquire of the semaphore
InSemWait(t) == op[t] \in {"Acquire", "TryAcquire"}

\* C25: a thread suspended in Monitor.wait inside Semaphore Acquire or
\* TryAcquire does not hold the semaphore's FastLock, so that other threads
\* run Release and Acquire meanwhile; the thread takes the lock again (it
\* must be free) in the step that follows the wait, before it touches
\* waiters_, entry_count_ or count_.
C25_SuspendedWithoutLock ==
    /\ [](\A t \in Threads :
             (InSemWait(t) /\ pc[t] \in {"pre_wait", "parked"}) => lock # t)
    /\ [][\A t \in Threads :
             (InSemWait(t) /\ pc[t] \in {"pre_wait", "parked", "post_wait"})
                => /\ lock' # t
                   /\ (pc[t] = "post_wait" /\ pc'[t] # "post_wait")
                         => lock = 0]_vars

\* a thread is parked in Acquire while another one runs Release under the
\* FastLock and a third one has gone through Acquire and is parked as well
C25_Witness ==
    \E t, u, v \in Threads :
        /\ t # v
        /\ op[t] = "Acquire" /\ pc[t] = "parked"
        /\ op[v] \in {"Acquire", "TryAcquire"} /\ pc[v] = "parked"
        /\ lock = u /\ pc[u] = "r_walk"

\* thread t waits for the FastLock or for a Monitor mutex
LockWaiting(t) ==
    \/ pc[t] \in {"post_wait", "r_yield"}
    \/ pc[t] = "parked" /\ mstate[t] # "IDLE"

\* the thread that has the lock t waits for (0: the lock is free)
LockHolder(t) == IF pc[t] = "parked" THEN mlock[t] ELSE lock

\* thread t can take a step of the semaphore's code
CanStep(t) ==
    ENABLED (\/ ReleaseStep(t) \/ ReleaseNotify(t) \/ ReleaseWalkEnd(t)
             \/ ReleaseRetry(t) \/ AcquireResume(t) \/ TryAcquireResume(t)
             \/ MonitorWaitBegin(t) \/ MonitorWaitEnd(t))

\* C26: the semaphore cannot deadlock internally: a thread that waits for
\* the FastLock or for a Monitor mutex can go on, or the thread that holds
\* what it waits for can; the holder never waits for a lock itself (Release
\* only try-acquires Monitors under the FastLock, and the Monitor an Acquire
\* takes under the FastLock is free), so no set of threads wait for each
\* other.
C26_NoInternalDeadlock ==
    /\ \A t \in Threads :
          LockWaiting(t)
             => \/ CanStep(t)
                \/ /\ LockHolder(t) \in Threads \ {t}
                   /\ ~LockWaiting(LockHolder(t))
                   /\ CanStep(LockHolder(t))
    /\ lock = 0 => \A t \in Threads : pc[t] = "idle" => MonitorFree(t)

\* a woken waiter holds its Monitor and waits for the FastLock, while the
\* Release that holds the FastLock has come to this very waiter in its walk
C26_Witness ==
    \E t, u \in Threads :
        /\ pc[t] = "post_wait" /\ mlock[t] = t
        /\ lock = u /\ pc[u] = "r_walk"
        /\ iter <= Len(waiters) /\ waiters[iter] = t

\* C27: Monitor notify returns true at most once per pending signal. A
\* notify on a Monitor that has left IDLE returns false (Release goes on
\* with its walk) and leaves the state word as it is; a notify that returns
\* true finds the owner parked with the state IDLE and leaves SIGNALED. The
\* owner is out of waiters_ by then, so no other Release notifies it before
\* its wait has consumed the state.
C27_NotifyOncePerSignal ==
    [][\A u \in Threads :
          (pc[u] = "r_notify" /\ pc'[u] # "r_notify")
             => /\ impl \in Threads
                /\ ListFind(waiters, impl) > Len(waiters)
                /\ IF mstate[impl] = "IDLE"
                   THEN /\ pc[impl] = "parked"
                        /\ mstate'[impl] = "SIGNALED"
                        /\ pc'[u] = "idle" /\ ret'[u] = "ok"
                   ELSE /\ mstate'[impl] = mstate[impl]
                        /\ pc'[u] = "r_walk"]_vars

\* Release is about to notify a waiter whose wait was already ended by an
\* interrupt or a timeout
C27_Witness ==
    \E u \in Threads :
        /\ pc[u] = "r_notify"
        /\ impl \in Threads
        /\ pc[impl] = "parked"
        /\ mstate[impl] \in {"INTERRUPTED", "TIMEDOUT"}

\* the owner's wait returns in this step
WaitReturns(t) == pc[t] \in {"pre_wait", "parked"} /\ pc'[t] = "post_wait"

SharingHandles == {h \in Handles : hstate[h] = "live" /\ hcount[h] = 1}

\* the handles that point at the shared count, whatever their constructor or
\* destructor is doing
PointingHandles ==
    {h \in Handles : hstate[h] \in {"live", "copying", "dying"} /\ hcount[h] = 1}

\* C29: for CountedPtr handles that share one object, in every interleaving
\* of copy constructions and destructions by several threads, the shared
\* count is the number of live handles, the object is deleted exactly once,
\* and only when the last handle is destroyed (and then it is), and the
\* assertion of ~AtomicCount (value == 0) holds when the count is deleted.
C29_CountIsLiveHandles ==
    /\ alive => value = Cardinality(SharingHandles)
    /\ deletes <= 1
    /\ ~asserted
    /\ ~dangling
    /\ deletes = 1 => (~alive /\ PointingHandles = {})
    /\ alive => PointingHandles # {}
    /\ \A t \in Threads : pc[t] = "dt_delete" => (alive /\ value = 0)

\* three handles shared the object, each of the three threads has destroyed
\* one, and the object is deleted
C29_Witness ==
    /\ deletes = 1
    /\ ~alive
    /\ nOps = MaxPtrOps
    /\ \A h \in Handles : hstate[h] = "none" /\ hcount[h] = 1
    /\ \A t \in Threads : op[t] = "Destroy" /\ pc[t] = "idle"

\* C31: write TryAcquire(timeout) of FairReadWriteLock ends when its timeout
\* has elapsed: a caller whose timed wait on cond_ ran out while readers are
\* still active returns false with lock_ released, it does not wait again.
C31_TimedOutWriterReturnsFalse ==
    [][\A t \in Threads :
          (/\ op[t] = "FWTryAcquire"
           /\ pc[t] = "f_body"
           /\ wres[t] = "TIMEDOUT"
           /\ readers_ > 0
           /\ pc'[t] # "f_body")
             => /\ pc'[t] = "idle"
                /\ ret'[t] = "false"
                /\ mtx' = 0]_vars

\* C32: Release() on a checked semaphore fails with INVALID_OP exactly when
\* count is not below max_count (a semaphore constructed with count above
\* max_count included); a failed Release leaves count, waiters and
\* entry_count as they were and wakes no waiter.
C32_ReleaseFailsAtOrAboveMax ==
    [][\A t \in Threads :
          ReleaseEnter(t)
             => IF checked /\ count >= max_count
                THEN /\ ret'[t] = "INVALID_OP"
                     /\ pc'[t] = "idle"
                     /\ count' = count
                     /\ waiters' = waiters
                     /\ entry_count' = entry_count
                     /\ mstate' = mstate
                ELSE /\ ret'[t] # "INVALID_OP"
                     /\ count' = count + 1]_vars

\* thread t is in the semaphore's waiter list
InWaiters(t) == \E j \in 1 .. Len(waiters) : waiters[j] = t

\* C33: waiter-list hygiene: a thread that has returned from Acquire or
\* TryAcquire, by whatever exit, is not in the waiter list (only a thread
\* between its insertion and its removal is), and no thread is in the list
\* more than once.
C33_WaiterListHygiene ==
    /\ \A t \in Threads :
          InWaiters(t) => pc[t] \in {"pre_wait", "parked", "post_wait"}
    /\ \A j, k \in 1 .. Len(waiters) : waiters[j] = waiters[k] => j = k

\* one thread's TryAcquire timed out and another one's Acquire was
\* interrupted; both have returned and left the list, in which a third
\* thread still waits
C33_Witness ==
    \E t, u, v \in Threads :
        /\ op[t] = "TryAcquire" /\ wres[t] = "TIMEDOUT"
        /\ ret[t] = "false" /\ pc[t] = "idle"
        /\ op[v] = "Acquire" /\ ret[v] = "INTERRUPTED" /\ pc[v] = "idle"
        /\ op[u] = "Acquire" /\ pc[u] = "parked"
        /\ waiters = <<u>>

\* the threads inside the slow path of Acquire / TryAcquire: counted in
\* entry_count_ and not yet through --entry_count_
MidAcquire == {t \in Threads : pc[t] \in {"pre_wait", "parked", "post_wait"}}

\* the threads a Release has erased from the waiter list and that have not
\* decremented entry_count_ yet
MidRemoval == {t \in MidAcquire : ~InWaiters(t)}

\* C34: whenever the FastLock is free, entry_count is not negative and is
\* the length of the waiter list plus the number of threads that a Release
\* has erased from the list and that have not decremented entry_count yet;
\* it is 0 when no Acquire / TryAcquire is in progress.
C34_EntryCount ==
    lock = 0
       => /\ entry_count >= 0
          /\ entry_count = Len(waiters) + Cardinality(MidRemoval)
          /\ MidAcquire = {} => entry_count = 0

\* the FastLock is free, one waiter is still listed and another one was
\* erased and notified by a Release but has not resumed
C34_Witness ==
    /\ lock = 0
    /\ entry_count = 2
    /\ Len(waiters) = 1
    /\ \E t \in Threads :
          /\ pc[t] = "parked" /\ mstate[t] = "SIGNALED" /\ ~InWaiters(t)

\* C35: a new Acquire / TryAcquire takes the fast path only when count > 0
\* and entry_count = 0, and never takes a count that a Release gave to a
\* woken waiter: a waiter whose wait returned SIGNALED finds count >= 1 when
\* it decrements.
C35_SignaledFindsCount ==
    [][\A t \in Threads :
          /\ ((AcquireEnter(t) \/ \E timeout \in Timeouts : TryAcquireEnter(t, timeout))
                 /\ count' = count - 1)
                => (count > 0 /\ entry_count = 0)
          /\ ((AcquireResume(t) \/ TryAcquireResume(t)) /\ wres[t] = "SIGNALED")
                => count >= 1]_vars

\* thread t takes a step of Acquire or TryAcquire that may return
AcquireStep(t) ==
    \/ AcquireEnter(t)
    \/ \E timeout \in Timeouts : TryAcquireEnter(t, timeout)
    \/ AcquireResume(t)
    \/ TryAcquireResume(t)

\* C38: the semaphore's count is conserved. Whenever no operation is in
\* progress, count is the initial count plus the Release calls that returned
\* normally minus the Acquire / TryAcquire calls that returned success: the
\* count goes down by one exactly in the step in which an Acquire or
\* TryAcquire returns success, up by one exactly in the step in which a
\* Release passes its test, and a call that fails (INTERRUPTED, TIMEDOUT,
\* SYNCHRONIZATION, INVALID_OP) leaves it alone.
C38_CountConserved ==
    /\ []((\A t \in Threads : pc[t] = "idle")
             => count = count0 + nRel - nAcq)
    /\ [][/\ \A t \in Threads :
               /\ AcquireStep(t)
                     => IF pc'[t] = "idle" /\ ret'[t] = "ok"
                        THEN count' = count - 1 /\ nAcq' = nAcq + 1
                        ELSE count' = count /\ nAcq' = nAcq
               /\ ReleaseEnter(t)
                     => IF ret'[t] = "INVALID_OP"
                        THEN count' = count /\ nRel' = nRel
                        ELSE count' = count + 1 /\ nRel' = nRel + 1
               /\ (pc[t] \in {"r_walk", "r_notify", "r_yield"} /\ pc'[t] = "idle")
                     => ret'[t] = "ok"
           /\ count' # count
                 => \E u \in Threads : AcquireStep(u) \/ ReleaseEnter(u)]_vars

\* all calls have returned: one Release was refused, one succeeded, one
\* Acquire was interrupted and one TryAcquire took a count
C38_Witness ==
    /\ \A t \in Threads : pc[t] = "idle"
    /\ nOps = 4 /\ nRel = 1 /\ nAcq = 1
    /\ \E t \in Threads : op[t] = "Release" /\ ret[t] = "INVALID_OP"
    /\ \E t \in Threads : op[t] = "Acquire" /\ ret[t] = "INTERRUPTED"
    /\ \E t \in Threads : op[t] = "TryAcquire" /\ ret[t] = "ok"

\* the scopes the last operation worked on, in the order of its calls
ScopeOrder == [j \in 1 .. Len(calls) |-> calls[j].scope]

\* the timed creation of the second policy's scope has just failed
SecondTimedFailed ==
    /\ sop = "CreateScopeTimed"
    /\ Len(calls) >= 2
    /\ calls[2].what = "Create" /\ ~calls[2].ok

\* C36: CompoundScope applies its two policies in sequence on entry and in
\* reverse order on exit (Scope2 is destroyed before Scope1), and when the
\* second policy's timed creation fails the first policy's scope is
\* destroyed, so that the lock is as it was before entry.
C36_SequenceAndReverse ==
    /\ (sop \in {"CreateScope", "CreateScopeTimed"} /\ Len(calls) >= 2)
          => (calls[1].scope = 1 /\ calls[2].scope = 2)
    /\ sop = "DestroyScope" => ScopeOrder = <<2, 1>>
    /\ SecondTimedFailed
          => /\ Len(calls) = 3
             /\ calls[3] = LockCall(1, "Destroy", "Release", TRUE)
             /\ holds = holds0
             /\ guard = "none"

\* C40: the timed CreateScope(l, ms) of CompoundScope returns true only if
\* both policies' scopes were created; when the first policy's timed
\* creation fails the compound creation returns false and no scope is left
\* applied.
C40_TimedTrueMeansBoth ==
    sop = "CreateScopeTimed"
       => /\ sret = "true" => ({1, 2} \subseteq applied /\ holds = holds0 + 2)
          /\ ~calls[1].ok => (sret = "false" /\ holds = holds0)

\* the threads that hold the FastLock: their decrement reached 0 and they
\* have not started to release
FlHolders == {t \in Threads : flpc[t] \in {"acq_won", "try_won", "held"}}

\* the threads whose decrement failed and is not yet put back
FlFailed == {t \in Threads : flpc[t] \in {"acq_failed", "try_failed"}}

\* C37: the FastLock provides mutual exclusion. Under any interleaving of
\* Acquire, TryAcquire and Release (each Release by the current holder) at
\* most one thread holds the lock, _value never exceeds 1, and a failed
\* attempt puts back what it decremented: _value is 1 less the holder less
\* the failed decrements still outstanding.
C37_FastLockExcludes ==
    /\ Cardinality(FlHolders) <= 1
    /\ value_ <= 1
    /\ value_ = 1 - Cardinality(FlHolders) - Cardinality(FlFailed)

\* one thread holds the lock, a TryAcquire of another has failed and
\* returned, and the Acquire of a third has just failed
C37_Witness ==
    \E t, u, v \in Threads :
       /\ flpc[t] = "held"
       /\ flpc[u] = "out" /\ flret[u] = "false"
       /\ flpc[v] = "acq_failed"
       /\ value_ = -1

\* thread t is on the waiters of one of the lock's two conditions
RWParked(t) ==
    \E c \in DOMAIN rwcond : \E j \in 1 .. Len(rwcond[c]) : rwcond[c][j] = t

\* the four counters of the lock are 0 and nobody is on its conditions
RWDrained ==
    /\ active_readers_ = 0 /\ active_writers_ = 0
    /\ waiting_readers_ = 0 /\ waiting_writers_ = 0
    /\ \A t \in AllThreads : ~RWParked(t)

\* C39: the BiasedReadWriteLock is live for a finite workload. When each of
\* a finite set of threads acquires the read or the write lock once and then
\* releases it, without interrupts and fairly scheduled, every thread gets
\* its lock in the end, the four counters return to 0, and no thread stays
\* parked on cond_read_ or cond_write_ while the lock is free.
C39_BiasedLive ==
    /\ \A t \in Threads :
          (op[t] \in {"RAcquire", "WAcquire"}) ~> (held[t] = RWKind(op[t]))
    /\ <>[]RWDrained
    /\ \A t \in Threads :
          (RWParked(t) /\ active_writers_ = 0 /\ active_readers_ = 0)
             ~> ~RWParked(t)

\* all four threads have been in and out, two of them after a wait that was
\* signalled, and the lock is drained
C39_Witness ==
    /\ \A t \in Threads : op[t] \in RWReleaseOps /\ pc[t] = "idle"
    /\ \E t, u \in Threads :
          /\ op[t] = "RRelease" /\ wres[t] = "SIGNALED"
          /\ op[u] = "WRelease" /\ wres[u] = "SIGNALED"
    /\ RWDrained

====
